---- MODULE Spec2Model ----
(***************************************************************************)
(* The correlation store (sentinel/engine/correlation.py), the suppression *)
(* gate (sentinel/engine/suppression.py) and the timeout sweep             *)
(* (sentinel/app.py) of the GxP deviation risk sentinel.                   *)
(*                                                                         *)
(* File contents are sequences of JSON tokens.  json.dumps is modelled by  *)
(* the token sequence it emits (keys sorted), json.loads by a recursive    *)
(* descent over the tokens.  A correlation record, a flat object of four   *)
(* scalars, is one token.  Time is counted in whole minutes.               *)
(***************************************************************************)
EXTENDS Integers, Sequences, FiniteSets, TLC

VARIABLES
  file,      \* the canonical state path: [exists, data]
  tmp,       \* the temp path next to it: [exists, data, synced]
  now,       \* the wall clock (UTC, minutes)
  store,     \* TRUE once a CorrelationStore object has been constructed
  last,      \* the last step of the single-process models: operation, inputs, outcome
  procs,     \* the processes that run store operations step by step
  nw,        \* how many of them run
  rt,        \* a document a caller holds in memory, written and read back
  cfg,       \* the sweep configuration artifact
  supp,      \* the suppression state: suppression key -> last emitted at
  alerts,    \* the alert sink (append-only)
  out,       \* what the last sweep invocation did
  call       \* the last direct call of a function: its inputs and its result

vars == <<file, tmp, now, store, last, procs, nw, rt, cfg, supp, alerts, out, call>>
fsVars == <<procs, nw>>
appVars == <<rt, cfg, supp, alerts, out, call>>

(***************************************************************************)
(* Bounds of the model.                                                    *)
(***************************************************************************)
MaxTime == 2          \* the clock runs from 0 to MaxTime
MaxRecords == 2       \* add_event is not called once the file holds this many records

(***************************************************************************)
(* Strings.  None is Python's None; the other values are str.             *)
(***************************************************************************)
None == "<None>"

\* str.strip() on the strings the model uses
strip(s) ==
  CASE s = " " -> ""
    [] s = " g1 " -> "g1"
    [] OTHER -> s

\* the group keys a document may hold, in the order sort_keys=True emits them
\* together with the two top-level keys: "g1" < "g2" < "groups" < "version"
KeyOrder == <<"g1", "g2", "groups", "version">>

VERSION == "0.1"

(***************************************************************************)
(* Timestamps.  A timestamp string is [t, z]: the instant and how the      *)
(* string ends: "Z", "+00:00", "naive" (no UTC offset), "bad" (not ISO),   *)
(* "empty" (the empty string).                                             *)
(***************************************************************************)
TsZ(t) == [t |-> t, z |-> "Z"]
TsIso(t) == [t |-> t, z |-> "+00:00"]
TsNaive(t) == [t |-> t, z |-> "naive"]
TsBad == [t |-> 0, z |-> "bad"]
TsEmpty == [t |-> 0, z |-> "empty"]

\* datetime.isoformat() of an aware UTC datetime
isoformat(t) == TsIso(t)

\* CorrelationStore._parse_iso: a trailing Z is read as +00:00; the result is
\* [ok, aware, t]; ok = FALSE stands for the ValueError of fromisoformat
CorrelationStore_parse_iso(ts) ==
  CASE ts.z \in {"Z", "+00:00"} -> [ok |-> TRUE, aware |-> TRUE, t |-> ts.t]
    [] ts.z = "naive" -> [ok |-> TRUE, aware |-> FALSE, t |-> ts.t]
    [] OTHER -> [ok |-> FALSE, aware |-> FALSE, t |-> 0]

(***************************************************************************)
(* JSON tokens.                                                            *)
(***************************************************************************)
NoRec == [event_id |-> "", event_type |-> "", event_timestamp |-> TsEmpty, batch_token |-> ""]
Tok(k, s, r) == [k |-> k, s |-> s, r |-> r]
LB == Tok("{", "", NoRec)
RB == Tok("}", "", NoRec)
LS == Tok("[", "", NoRec)
RS == Tok("]", "", NoRec)
Key(s) == Tok("key", s, NoRec)       \* "s":
Str(s) == Tok("str", s, NoRec)       \* "s"
Obj(r) == Tok("obj", "", r)          \* a record {batch_token, event_id, event_timestamp, event_type}
Junk == Tok("junk", "", NoRec)       \* bytes that are no JSON
Nul == Tok("nul", "", NoRec)         \* a zero byte of a hole in a file

RECURSIVE Concat(_)
Concat(ss) == IF ss = <<>> THEN <<>> ELSE Head(ss) \o Concat(Tail(ss))

(***************************************************************************)
(* json.loads.  ValEnd(t, i) is the index just past the JSON value that    *)
(* starts at t[i], or 0 when no value starts there.                        *)
(***************************************************************************)
RECURSIVE ValEnd(_, _), ArrEnd(_, _), ObjEnd(_, _)
ValEnd(t, i) ==
  IF i > Len(t) THEN 0
  ELSE CASE t[i].k \in {"str", "obj"} -> i + 1
         [] t[i].k = "[" -> ArrEnd(t, i + 1)
         [] t[i].k = "{" -> ObjEnd(t, i + 1)
         [] OTHER -> 0
ArrEnd(t, i) ==
  IF i > Len(t) THEN 0
  ELSE IF t[i].k = "]" THEN i + 1
  ELSE LET j == ValEnd(t, i) IN IF j = 0 THEN 0 ELSE ArrEnd(t, j)
ObjEnd(t, i) ==
  IF i > Len(t) THEN 0
  ELSE IF t[i].k = "}" THEN i + 1
  ELSE IF t[i].k # "key" THEN 0
  ELSE LET j == ValEnd(t, i + 1) IN IF j = 0 THEN 0 ELSE ObjEnd(t, j)

\* json.loads succeeds: the whole text is one value
json_ok(t) == t # <<>> /\ ValEnd(t, 1) = Len(t) + 1

isdict(v) == v # <<>> /\ v[1].k = "{"
islist(v) == v # <<>> /\ v[1].k = "["

\* the members of the object whose first member starts at t[i]: <<[key, val]>>
RECURSIVE ObjMembers(_, _)
ObjMembers(t, i) ==
  IF t[i].k = "}" THEN <<>>
  ELSE LET j == ValEnd(t, i + 1)
       IN <<[key |-> t[i].s, val |-> SubSeq(t, i + 1, j - 1)]>> \o ObjMembers(t, j)

\* the elements of the array whose first element starts at t[i]
RECURSIVE ArrElems(_, _)
ArrElems(t, i) ==
  IF t[i].k = "]" THEN <<>>
  ELSE LET j == ValEnd(t, i) IN <<SubSeq(t, i, j - 1)>> \o ArrElems(t, j)

\* a JSON object as a Python dict: key -> value (a repeated key keeps its last value)
Dict(v) ==
  LET ms == ObjMembers(v, 2)
      ks == {ms[i].key : i \in DOMAIN ms}
      lastOf(k) == CHOOSE i \in DOMAIN ms : ms[i].key = k /\ \A j \in DOMAIN ms : ms[j].key = k => j <= i
  IN [k \in ks |-> ms[lastOf(k)].val]

\* a JSON array as a Python list of values
List(v) == ArrElems(v, 2)

(***************************************************************************)
(* json.dumps(obj, sort_keys=True, indent=2).                              *)
(***************************************************************************)
RECURSIVE DumpMembers(_, _)
DumpMembers(d, i) ==
  IF i > Len(KeyOrder) THEN <<>>
  ELSE (IF KeyOrder[i] \in DOMAIN d THEN <<Key(KeyOrder[i])>> \o d[KeyOrder[i]] ELSE <<>>)
       \o DumpMembers(d, i + 1)

DumpDict(d) == <<LB>> \o DumpMembers(d, 1) \o <<RB>>
DumpList(l) == <<LS>> \o Concat(l) \o <<RS>>

EmptyDict == [k \in {} |-> <<>>]
Put(d, k, v) == [x \in DOMAIN d \cup {k} |-> IF x = k THEN v ELSE d[x]]

(***************************************************************************)
(* Files.                                                                  *)
(***************************************************************************)
NoFile == [exists |-> FALSE, data |-> <<>>]
FileOf(t) == [exists |-> TRUE, data |-> t]

(***************************************************************************)
(* CorrelationStore: the functions of its operations.                      *)
(***************************************************************************)
_empty_doc == Put(Put(EmptyDict, "groups", <<LB, RB>>), "version", <<Str(VERSION)>>)

\* the checks of _read_safe: the path can be read, the text is not blank, it is
\* JSON, its root is an object and its 'groups' is an object
read_ok(f) ==
  /\ f.exists
  /\ json_ok(f.data)
  /\ isdict(f.data)
  /\ "groups" \in DOMAIN Dict(f.data)
  /\ isdict(Dict(f.data)["groups"])

\* _read_safe(recover): [doc, recovered, raised].  recovered says that the except
\* branch wrote the clean document over the path; raised that it re-raised
\* a safe read that never recovers
_read_safe_no_recovery(f, recover) ==
  [doc |-> IF read_ok(f) THEN Dict(f.data) ELSE _empty_doc, recovered |-> FALSE, raised |-> ~read_ok(f)]

\* a safe read that also takes a document without 'version' as unreadable
_read_safe_full_reset(f, recover) ==
  IF read_ok(f) /\ "version" \in DOMAIN Dict(f.data)
  THEN [doc |-> Dict(f.data), recovered |-> FALSE, raised |-> FALSE]
  ELSE [doc |-> _empty_doc, recovered |-> recover, raised |-> ~recover]

_read_safe(f, recover) ==
  IF read_ok(f)
  THEN LET doc == Dict(f.data)
       IN [doc |-> IF "version" \in DOMAIN doc THEN doc ELSE Put(doc, "version", <<Str(VERSION)>>),
           recovered |-> FALSE, raised |-> FALSE]
  ELSE [doc |-> _empty_doc, recovered |-> recover, raised |-> ~recover]

\* the text _write_atomic puts under the path
\* a write that loses the groups
_write_atomic_no_groups(obj) == FileOf(DumpDict(Put(obj, "groups", <<LB, RB>>)))

_write_atomic(obj) == FileOf(DumpDict(obj))

\* Python truth of a JSON value: empty strings and empty containers are falsy
truthy(v) == v # <<>> /\ v # <<Str("")>> /\ v # <<LS, RS>> /\ v # <<LB, RB>>

\* doc.get("version") or self.VERSION
version_of(doc) ==
  IF "version" \in DOMAIN doc /\ truthy(doc["version"]) THEN doc["version"] ELSE <<Str(VERSION)>>

\* doc.get("groups", {}) or {}
groups_of(doc) == IF "groups" \in DOMAIN doc /\ isdict(doc["groups"]) THEN Dict(doc["groups"]) ELSE EmptyDict

\* a record that keeps the timestamp and the batch token it was given
new_record_as_given(event_id, event_type, event_timestamp, batch_token, t) ==
  [event_id |-> event_id,
   event_type |-> event_type,
   event_timestamp |-> event_timestamp,
   batch_token |-> batch_token]

\* the record add_event builds (lines 128-138)
new_record(event_id, event_type, event_timestamp, batch_token, t) ==
  [event_id |-> event_id,
   event_type |-> event_type,
   event_timestamp |-> IF event_timestamp.z = "empty" THEN isoformat(t) ELSE event_timestamp,
   batch_token |-> IF batch_token \in {None, ""} THEN None ELSE batch_token]

\* an add_event that replaces the group's list by the new record
add_event_doc_replace(doc, gk, record) ==
  Put(Put(doc, "groups", DumpDict(Put(groups_of(doc), gk, DumpList(<<<<Obj(record)>>>>)))),
      "version", version_of(doc))

\* add_event after the read, for a group key gk that is not blank (lines 124-143)
add_event_doc(doc, gk, record) ==
  LET groups == groups_of(doc)
      got == IF gk \in DOMAIN groups THEN groups[gk] ELSE <<LS, RS>>
      lst == IF islist(got) THEN List(got) ELSE <<>>
  IN Put(Put(doc, "groups", DumpDict(Put(groups, gk, DumpList(Append(lst, <<Obj(record)>>))))),
         "version", version_of(doc))

\* a test of prune that drops the record whose timestamp equals the cutoff
keeps_after_cutoff(e, cutoff) ==
  /\ Len(e) = 1
  /\ e[1].k = "obj"
  /\ LET ts == CorrelationStore_parse_iso(e[1].r.event_timestamp)
     IN ts.ok /\ ts.aware /\ ts.t > cutoff

\* the test of prune on one element of a group (lines 160-169): a dict whose
\* timestamp parses and is not before the cutoff; comparing a naive datetime
\* with the aware cutoff raises TypeError, which the except clause swallows
keeps(e, cutoff) ==
  /\ Len(e) = 1
  /\ e[1].k = "obj"
  /\ LET ts == CorrelationStore_parse_iso(e[1].r.event_timestamp)
     IN ts.ok /\ ts.aware /\ ts.t >= cutoff

\* a prune that keeps every group as it is
prune_doc_all(doc, max_age_minutes, t) == Put(doc, "version", version_of(doc))

\* a prune that keeps the groups it has emptied
prune_doc_keep_empty(doc, max_age_minutes, t) ==
  LET groups == groups_of(doc)
      cutoff == t - max_age_minutes
      kept(gk) == IF islist(groups[gk]) THEN SelectSeq(List(groups[gk]), LAMBDA e : keeps(e, cutoff)) ELSE <<>>
      new_groups == [gk \in DOMAIN groups |-> DumpList(kept(gk))]
  IN Put(Put(doc, "groups", DumpDict(new_groups)), "version", version_of(doc))

\* prune after the read (lines 149-175), at time t
prune_doc(doc, max_age_minutes, t) ==
  LET groups == groups_of(doc)
      cutoff == t - max_age_minutes
      kept(gk) == IF islist(groups[gk]) THEN SelectSeq(List(groups[gk]), LAMBDA e : keeps(e, cutoff)) ELSE <<>>
      new_groups == [gk \in {g \in DOMAIN groups : kept(g) # <<>>} |-> DumpList(kept(gk))]
  IN Put(Put(doc, "groups", DumpDict(new_groups)), "version", version_of(doc))

\* a lookup that finds no group
get_group_events_doc_absent(doc, group_key) == <<LS, RS>>

\* get_group_events after the read (lines 180-181): the str() of the key is looked up as it is
get_group_events_doc(doc, group_key) ==
  LET groups == groups_of(doc)
  IN IF group_key \in DOMAIN groups THEN groups[group_key] ELSE <<LS, RS>>

\* the records a file holds (none when it cannot be read as a document)
RecordsOf(f) ==
  IF ~read_ok(f) THEN <<>>
  ELSE LET groups == groups_of(Dict(f.data))
           recs(gk) == IF gk \in DOMAIN groups /\ islist(groups[gk]) THEN List(groups[gk]) ELSE <<>>
       IN Concat([i \in 1..Len(KeyOrder) |-> recs(KeyOrder[i])])

(***************************************************************************)
(* The store's operations, each as one step of a single process.           *)
(***************************************************************************)
NoTmp == [exists |-> FALSE, data |-> <<>>, synced |-> FALSE]

Op(op, key, M, raised, recovered, ret) ==
  [op |-> op, key |-> key, M |-> M, raised |-> raised, recovered |-> recovered, ret |-> ret]

\* a read that rewrites the empty document whatever it found
after_read_reset(f) == FileOf(DumpDict(_empty_doc))

\* the file after _read_safe(recover=True) found f
after_read(f) == IF _read_safe(f, TRUE).recovered THEN _write_atomic(_empty_doc) ELSE f

\* CorrelationStore.__init__ (lines 42-49)
Construct ==
  LET f1 == IF ~file.exists THEN _write_atomic(_empty_doc) ELSE file
      rd == _read_safe(f1, TRUE)
  IN /\ file' = after_read(f1)
     /\ store' = TRUE
     /\ last' = Op("__init__", "", 0, rd.raised, rd.recovered, <<>>)
     /\ UNCHANGED <<tmp, now, fsVars, appVars>>

\* CorrelationStore.add_event (lines 108-145)
add_event(group_key, event_id, event_type, event_timestamp, batch_token) ==
  LET rd == _read_safe(file, TRUE)
      gk == strip(IF group_key = None THEN "" ELSE group_key)
      record == new_record(event_id, event_type, event_timestamp, batch_token, now)
  IN /\ store
     /\ file' = IF rd.raised \/ gk = "" THEN after_read(file)
                ELSE _write_atomic(add_event_doc(rd.doc, gk, record))
     /\ last' = [op |-> "add_event", key |-> group_key, M |-> 0, raised |-> rd.raised,
                 recovered |-> rd.recovered, ret |-> <<Obj(record)>>,
                 event_timestamp |-> event_timestamp, batch_token |-> batch_token]
     /\ UNCHANGED <<tmp, now, store, fsVars, appVars>>

\* CorrelationStore.prune (lines 147-176)
prune(max_age_minutes) ==
  LET rd == _read_safe(file, TRUE)
  IN /\ store
     /\ file' = IF rd.raised THEN after_read(file)
                ELSE _write_atomic(prune_doc(rd.doc, max_age_minutes, now))
     /\ last' = Op("prune", "", max_age_minutes, rd.raised, rd.recovered, <<>>)
     /\ UNCHANGED <<tmp, now, store, fsVars, appVars>>

\* CorrelationStore.get_group_events (lines 178-181)
get_group_events(group_key) ==
  LET rd == _read_safe(file, TRUE)
  IN /\ store
     /\ file' = after_read(file)
     /\ last' = Op("get_group_events", group_key, 0, rd.raised, rd.recovered,
                   IF rd.raised THEN <<>> ELSE get_group_events_doc(rd.doc, group_key))
     /\ UNCHANGED <<tmp, now, store, fsVars, appVars>>

(***************************************************************************)
(* The environment: time passes, and the state file is damaged from        *)
(* outside the program (truncated, overwritten, deleted).                  *)
(***************************************************************************)
Tick ==
  /\ now < MaxTime
  /\ now' = now + 1
  /\ last' = Op("tick", "", 0, FALSE, FALSE, <<>>)
  /\ UNCHANGED <<file, tmp, store, fsVars, appVars>>

\* a damaged state file: deleted, zero bytes, not JSON, root not an object,
\* 'groups' missing, 'groups' not a mapping
Damaged ==
  {NoFile,
   FileOf(<<>>),
   FileOf(<<Junk>>),
   FileOf(<<LS, RS>>),
   FileOf(<<LB, Key("version"), Str(VERSION), RB>>),
   FileOf(<<LB, Key("groups"), LS, RS, Key("version"), Str(VERSION), RB>>)}

\* a document that has lost its 'version' field and kept the rest
VersionLost(f) ==
  LET doc == Dict(f.data)
  IN {FileOf(DumpDict([k \in DOMAIN doc \ {"version"} |-> doc[k]]))}

\* the file cut short: in the middle, or before its last token
Truncated(f) == {FileOf(SubSeq(f.data, 1, n)) : n \in {Len(f.data) \div 2, Len(f.data) - 1}}

Corrupt ==
  /\ store
  /\ read_ok(file)
  /\ file' \in Damaged \cup Truncated(file) \cup VersionLost(file)
  /\ last' = Op("corrupt", "", 0, FALSE, FALSE, <<>>)
  /\ UNCHANGED <<tmp, now, store, fsVars, appVars>>

(***************************************************************************)
(* The timeout sweep (sentinel/app.py) and its collaborators.              *)
(***************************************************************************)
\* a conversion that keeps blank strings
_safe_str_keep(v) == v

\* app._safe_str (lines 65-69)
_safe_str(v) == IF v = None \/ strip(v) = "" THEN None ELSE strip(v)

\* app._parse_iso (lines 72-76) on a string that is not empty
_parse_iso(ts) ==
  [ok |-> ts.z \in {"Z", "+00:00", "naive"}, aware |-> ts.z \in {"Z", "+00:00"}, t |-> ts.t]

\* _safe_str(e.get("event_timestamp")) or _now_utc_iso() (lines 208, 224)
timestamp_or_now(e, t) == IF e.event_timestamp.z = "empty" THEN isoformat(t) ELSE e.event_timestamp

\* the allow-list of the routing policy
allowed == {"QA"}

\* the sweep configuration artifact as _sweep_timeouts reads it (lines 151-171)
\* and the allow-list of the routing policy it is called with (line 124)
Config(enabled, threshold_minutes, window_minutes, consumers, severity) ==
  [enabled |-> enabled,
   rule_id |-> "R-002-STEP_TIMEOUT",
   threshold_minutes |-> threshold_minutes,
   pair_with_event_type |-> "STEP_COMPLETED",
   consumers |-> consumers,
   severity |-> severity,
   window_minutes |-> window_minutes,
   allowed_consumers |-> allowed,
   load |-> "ok"]

\* load_json_obj (lines 33-42) raises when the artifact is missing, is not
\* JSON, or is not a JSON object
load_json_obj_raises(c) == c.load \in {"missing", "notjson", "notdict"}

\* a reading of the configuration that takes the sweep as enabled whatever it says
enabled_always(c) == TRUE

\* bool(cfg.get("enabled", True)) (line 151)
enabled_of(c) == c.enabled

\* a record of the audit trail: its type, its error code, the event id it
\* names, and the position of the open the candidate was made from
AuditRecord(record_type, error_code, event_id, open) ==
  [record_type |-> record_type, error_code |-> error_code, event_id |-> event_id, open |-> open]
NoEventId == [s |-> None, bt |-> "", t |-> 0]
NoOpen == <<"", 0>>

\* a routing policy that accepts any consumer
normalize_accepts(consumers, allow) == FALSE

\* RoutingPolicy.normalize raises when a consumer is not on the allow-list
normalize_raises(consumers, allow) == \E i \in DOMAIN consumers : consumers[i] \notin allow

\* a gate that never finds a call within the window
WITHIN_WINDOW_never(delta_min, window_minutes) == FALSE

\* a window one minute shorter
WITHIN_WINDOW_short(delta_min, window_minutes) == delta_min < window_minutes - 1

\* the comparison of SuppressionStore.check_and_update (line 59)
WITHIN_WINDOW(delta_min, window_minutes) == delta_min < window_minutes

\* a gate whose window slides: a suppressed call refreshes the entry
check_and_update_sliding(state, suppression_key, window_minutes, t) ==
  LET suppressed == /\ suppression_key \in DOMAIN state
                    /\ WITHIN_WINDOW(t - state[suppression_key], window_minutes)
  IN [suppressed |-> suppressed,
      last_emitted_at |-> IF suppressed THEN state[suppression_key] ELSE t,
      state |-> Put(state, suppression_key, t)]

\* SuppressionStore.check_and_update (lines 48-82) called at time t: the
\* decision and the state it leaves
check_and_update(state, suppression_key, window_minutes, t) ==
  LET suppressed == /\ suppression_key \in DOMAIN state
                    /\ WITHIN_WINDOW(t - state[suppression_key], window_minutes)
  IN [suppressed |-> suppressed,
      last_emitted_at |-> IF suppressed THEN state[suppression_key] ELSE t,
      state |-> IF suppressed THEN state ELSE Put(state, suppression_key, t)]

\* an event id: the one a record carries, or the one the sweep derives
EventId(s) == [s |-> s, bt |-> "", t |-> 0]
SweepEventId(bt, t) == [s |-> "SWEEP", bt |-> bt, t |-> t]

\* the synthetic event of an open record e opened at opened_at (lines 242-257)
synthetic_event(e, bt, opened_at, threshold_min, t) ==
  [event_id |-> IF _safe_str(e.event_id) = None THEN SweepEventId(bt, opened_at)
                ELSE EventId(_safe_str(e.event_id)),
   event_type |-> e.event_type,
   event_timestamp |-> isoformat(opened_at + threshold_min),
   batch_token |-> e.batch_token,
   site |-> "UNKNOWN_SITE",
   area |-> "UNKNOWN_AREA",
   product_id |-> "UNKNOWN_PRODUCT",
   dbr_template_id |-> "UNKNOWN_TEMPLATE",
   dbr_template_version |-> "0.1",
   step_code |-> "UNKNOWN_STEP",
   section_code |-> "UNKNOWN_SECTION",
   received_at |-> isoformat(t)]

\* app._suppression_key (lines 83-95)
_suppression_key(event, rule_id) ==
  <<rule_id, event.site, event.area, event.product_id, event.dbr_template_id,
    event.dbr_template_version, event.step_code, event.section_code,
    IF _safe_str(event.batch_token) = None THEN "" ELSE _safe_str(event.batch_token)>>

\* AlertBuilder.build_alert (alert_builder.py lines 28-78), the fields the model follows
build_alert(event, c, t) ==
  [created_at |-> t,
   severity |-> c.severity,
   rule_id |-> c.rule_id,
   batch_token |-> event.batch_token,
   event_refs |-> <<event.event_id>>]

\* alert_validator.iter_errors: the alert schema requires a severity
iter_errors(alert_obj) == IF alert_obj.severity = None THEN <<"severity">> ELSE <<>>

\* an element of a group's list that is a dict
isrecord(e) == Len(e) = 1 /\ e[1].k = "obj"

\* a completion index that holds the completions of every batch token
completions_get_any(events, pair_type, bt, t) ==
  LET sel == SelectSeq(events, LAMBDA e :
               /\ isrecord(e)
               /\ _safe_str(e[1].r.event_type) = pair_type
               /\ _parse_iso(timestamp_or_now(e[1].r, t)).ok)
  IN [i \in 1..Len(sel) |-> _parse_iso(timestamp_or_now(sel[i][1].r, t))]

\* the completion index of one group for batch token bt (lines 198-211)
completions_get(events, pair_type, bt, t) ==
  LET sel == SelectSeq(events, LAMBDA e :
               /\ isrecord(e)
               /\ _safe_str(e[1].r.event_type) = pair_type
               /\ _safe_str(e[1].r.batch_token) = bt
               /\ _parse_iso(timestamp_or_now(e[1].r, t)).ok)
  IN [i \in 1..Len(sel) |-> _parse_iso(timestamp_or_now(sel[i][1].r, t))]

\* a resolution window open at its end
in_window_open_end(opened_at, cts, threshold_min) == opened_at <= cts /\ cts < opened_at + threshold_min

\* opened_at <= cts <= opened_at + timedelta(minutes=threshold_min) (line 235)
in_window(opened_at, cts, threshold_min) == opened_at <= cts /\ cts <= opened_at + threshold_min

\* the loop over the completions (lines 233-238): "ok", "no", or "raise" when
\* a completion without UTC offset is compared with the aware open
RECURSIVE completion_within(_, _, _, _)
completion_within(opened_at, cts, threshold_min, i) ==
  IF i > Len(cts) THEN "no"
  ELSE IF ~cts[i].aware THEN "raise"
  ELSE IF in_window(opened_at, cts[i].t, threshold_min) THEN "ok"
  ELSE completion_within(opened_at, cts, threshold_min, i + 1)

\* a sweep whose tally starts at one
SweepState_from_one(state, sink) ==
  [supp |-> state, alerts |-> sink, cands |-> <<>>, appended |-> <<>>,
   suppressed |-> <<>>, emitted |-> 1, raised |-> FALSE, audit |-> <<>>,
   early |-> <<>>, resolved |-> <<>>]

\* what a sweep has done so far: the candidates, the alerts appended, the
\* opens skipped as not yet overdue (early) and as completed in time (resolved)
SweepState(state, sink) ==
  [supp |-> state, alerts |-> sink, cands |-> <<>>, appended |-> <<>>,
   suppressed |-> <<>>, emitted |-> 0, raised |-> FALSE, audit |-> <<>>,
   early |-> <<>>, resolved |-> <<>>]

\* a pipeline that calls the suppression gate before the routing policy
pipeline_gate_first(st, c, pos, ev, t) ==
  LET log(s, record_type, error_code) ==
        [s EXCEPT !.audit = Append(@, AuditRecord(record_type, error_code, ev.event_id, pos))]
      decision == check_and_update(st.supp, _suppression_key(ev, c.rule_id), c.window_minutes, t)
      st1 == [st EXCEPT !.cands = Append(@, [open |-> pos, event |-> ev]), !.supp = decision.state]
      st2 == log(st1, "ROUTING_APPLIED", "")
      alert_obj == build_alert(ev, c, t)
      st3 == log(log(st2, "CORRELATION_HIT", ""), "ALERT_BUILT", "")
  IN IF normalize_raises(c.consumers, c.allowed_consumers)
     THEN log(st1, "INTERNAL_ERROR", "ROUTING_NOT_ALLOWED")
     ELSE IF decision.suppressed
          THEN [log(st2, "ALERT_SUPPRESSED", "") EXCEPT !.suppressed = Append(@, pos)]
     ELSE IF iter_errors(alert_obj) # <<>> THEN log(st3, "INTERNAL_ERROR", "ALERT_SCHEMA_INVALID")
     ELSE [log(st3, "ALERT_PERSISTED", "") EXCEPT !.alerts = Append(@, alert_obj),
                                                  !.appended = Append(@, pos),
                                                  !.emitted = @ + 1]

\* the pipeline for one synthetic event (lines 259-330)
pipeline(st, c, pos, ev, t) ==
  LET log(s, record_type, error_code) ==
        [s EXCEPT !.audit = Append(@, AuditRecord(record_type, error_code, ev.event_id, pos))]
      st1 == [st EXCEPT !.cands = Append(@, [open |-> pos, event |-> ev])]
      decision == check_and_update(st.supp, _suppression_key(ev, c.rule_id), c.window_minutes, t)
      st2 == [log(st1, "ROUTING_APPLIED", "") EXCEPT !.supp = decision.state]
      alert_obj == build_alert(ev, c, t)
      st3 == log(log(st2, "CORRELATION_HIT", ""), "ALERT_BUILT", "")
  IN IF normalize_raises(c.consumers, c.allowed_consumers) THEN log(st1, "INTERNAL_ERROR", "ROUTING_NOT_ALLOWED")
     ELSE IF decision.suppressed
          THEN [log(st2, "ALERT_SUPPRESSED", "") EXCEPT !.suppressed = Append(@, pos)]
     ELSE IF iter_errors(alert_obj) # <<>> THEN log(st3, "INTERNAL_ERROR", "ALERT_SCHEMA_INVALID")
     ELSE [log(st3, "ALERT_PERSISTED", "") EXCEPT !.alerts = Append(@, alert_obj),
                                                  !.appended = Append(@, pos),
                                                  !.emitted = @ + 1]

\* the body of the loop over the openings for the element at pos = <<gk, i>> (lines 213-330)
sweep_open(st, c, events, pos, t) ==
  LET e == events[pos[2]]
      r == e[1].r
      bt == _safe_str(r.batch_token)
      opened == _parse_iso(timestamp_or_now(r, t))
      thr == c.threshold_minutes
      within == completion_within(opened.t, completions_get(events, c.pair_with_event_type, bt, t), thr, 1)
  IN IF ~isrecord(e) THEN st
     ELSE IF _safe_str(r.event_type) # "STEP_OPENED" THEN st
     ELSE IF bt = None THEN st
     ELSE IF ~opened.ok THEN st
     ELSE IF ~opened.aware THEN [st EXCEPT !.raised = TRUE]
     ELSE IF opened.t + thr > t THEN [st EXCEPT !.early = Append(@, pos)]
     ELSE IF within = "raise" THEN [st EXCEPT !.raised = TRUE]
     ELSE IF within = "ok" THEN [st EXCEPT !.resolved = Append(@, pos)]
     ELSE pipeline(st, c, pos, synthetic_event(r, bt, opened.t, thr, t), t)

\* the events of a group (a value that is not a list is skipped, line 194)
events_of(groups, gk) == IF islist(groups[gk]) THEN List(groups[gk]) ELSE <<>>

\* the elements of all groups in the order the loops visit them
positions(groups) ==
  Concat([k \in 1..Len(KeyOrder) |->
            IF KeyOrder[k] \in DOMAIN groups
            THEN [i \in 1..Len(events_of(groups, KeyOrder[k])) |-> <<KeyOrder[k], i>>]
            ELSE <<>>])

\* the loops over groups and openings (lines 193-330); an exception ends them
RECURSIVE sweep_loop(_, _, _, _, _, _)
sweep_loop(st, c, groups, ps, k, t) ==
  IF k > Len(ps) \/ st.raised THEN st
  ELSE sweep_loop(sweep_open(st, c, events_of(groups, ps[k][1]), ps[k], t), c, groups, ps, k + 1, t)

\* _sweep_timeouts (lines 121-333) at time t: the return value, whether the
\* state file was read, what was printed to stderr, and what the sweep did
_sweep_timeouts(c, f, state, sink, t) ==
  LET st0 == SweepState(state, sink)
      doc == IF isdict(f.data) THEN Dict(f.data) ELSE EmptyDict
      groups == IF "groups" \in DOMAIN doc /\ isdict(doc["groups"]) THEN Dict(doc["groups"]) ELSE EmptyDict
      failed(error_code) ==
        [st0 EXCEPT !.audit = <<AuditRecord("INTERNAL_ERROR", error_code, NoEventId, NoOpen)>>]
  IN IF load_json_obj_raises(c)
     THEN [ret |-> 2, read |-> FALSE, stderr |-> "SWEEP config load failed",
           st |-> failed("SWEEP_CONFIG_LOAD_FAILED")]
     ELSE IF ~enabled_of(c) THEN [ret |-> 0, read |-> FALSE, stderr |-> "", st |-> st0]
     ELSE IF ~f.exists \/ ~json_ok(f.data)
     THEN [ret |-> 2, read |-> TRUE, stderr |-> "Correlation state unreadable.",
           st |-> failed("CORRELATION_STATE_READ_FAILED")]
     ELSE IF isdict(f.data) /\ "groups" \in DOMAIN doc /\ ~isdict(doc["groups"])
     THEN [ret |-> 2, read |-> TRUE, stderr |-> "Correlation state malformed.", st |-> st0]
     ELSE [ret |-> 0, read |-> TRUE, stderr |-> "",
           st |-> sweep_loop(st0, c, groups, positions(groups), 1, t)]

\* no sweep has run
NoSweep ==
  [at |-> -1, state |-> NoFile, ret |-> 0, raised |-> FALSE, cands |-> <<>>,
   appended |-> <<>>, suppressed |-> <<>>, emitted |-> 0, prev_at |-> -1, prev_same |-> FALSE,
   read |-> FALSE, stderr |-> "", audit |-> <<>>, early |-> <<>>, resolved |-> <<>>]

\* what is known of a sweep r that read the state f
SweepOut(r, f) ==
  [at |-> now, state |-> f, ret |-> r.ret, raised |-> r.st.raised,
   cands |-> r.st.cands, appended |-> r.st.appended,
   suppressed |-> r.st.suppressed, emitted |-> r.st.emitted,
   prev_at |-> out.at, prev_same |-> out.state = f,
   read |-> r.read, stderr |-> r.stderr, audit |-> r.st.audit,
   early |-> r.st.early, resolved |-> r.st.resolved]

\* one invocation of the sweep on a store constructed earlier
Sweep ==
  LET r == _sweep_timeouts(cfg, file, supp, alerts, now)
  IN /\ store
     /\ supp' = r.st.supp
     /\ alerts' = r.st.alerts
     /\ out' = SweepOut(r, file)
     /\ last' = Op("sweep", "", 0, r.st.raised, FALSE, <<>>)
     /\ UNCHANGED <<file, tmp, now, store, fsVars, rt, cfg, call>>

\* main (lines 336-381) run with --sweep-timeouts: the stores are constructed
\* (line 367 runs CorrelationStore.__init__), then the sweep is invoked
main_sweep ==
  LET f1 == IF ~file.exists THEN _write_atomic(_empty_doc) ELSE file
      rd == _read_safe(f1, TRUE)
      f2 == after_read(f1)
      r == _sweep_timeouts(cfg, f2, supp, alerts, now)
  IN /\ file' = f2
     /\ store' = TRUE
     /\ supp' = r.st.supp
     /\ alerts' = r.st.alerts
     /\ out' = SweepOut(r, f2)
     /\ last' = Op("main_sweep", "", 0, r.st.raised, rd.recovered, <<>>)
     /\ UNCHANGED <<tmp, now, fsVars, rt, cfg, call>>

\* no function has been called directly
NoCall == [op |-> "none"]

\* a caller holds no document
NoRT == [phase |-> "none", version |-> VERSION, groups |-> EmptyDict, got |-> EmptyDict]

\* the application state of the specifications that run no sweep
AppIdle ==
  /\ rt = NoRT
  /\ cfg = Config(TRUE, 1, 1, <<"QA">>, "HIGH")
  /\ supp = EmptyDict
  /\ alerts = <<>>
  /\ out = NoSweep
  /\ call = NoCall

(***************************************************************************)
(* The store's operations step by step: one step per system call, so that  *)
(* a process can crash between any two and two processes can interleave.   *)
(* A file descriptor follows its file: fd = "tmp" is the file now linked   *)
(* at the temp path, "canon" the file now linked at the state path,        *)
(* "orphan" a file no path names any more.                                 *)
(***************************************************************************)
Procs == {1, 2}

IdleProc ==
  [pc |-> "idle", op |-> "none", key |-> "", rec |-> NoRec, M |-> 0, obj |-> FALSE,
   wobj |-> EmptyDict, off |-> 0, fd |-> "closed", cont |-> "none", base |-> NoFile]

buf(q) == DumpDict(q.wobj)      \* json.dumps(obj, sort_keys=True, indent=2), line 98

\* a write that does not reach the file
WriteAt_lost(data, off, chunk) == data

\* the file after a write of chunk at offset off (a gap is filled with zero bytes)
WriteAt(data, off, chunk) ==
  LET padded == IF Len(data) < off THEN data \o [i \in 1..(off - Len(data)) |-> Nul] ELSE data
  IN SubSeq(padded, 1, off) \o chunk \o SubSeq(padded, off + Len(chunk) + 1, Len(padded))

\* process q enters _write_atomic(obj); cont says where it goes on afterwards
StartWrite(q, obj, cont) ==
  [q EXCEPT !.pc = "w_open", !.wobj = obj, !.cont = cont, !.off = 0]

\* process q, holding the document doc of _read_safe, runs the rest of its operation
Proceed(q, doc) ==
  CASE q.op = "add_event" ->
         LET gk == strip(IF q.key = None THEN "" ELSE q.key)
         IN IF gk = "" THEN [q EXCEPT !.pc = "done"]
            ELSE StartWrite(q, add_event_doc(doc, gk, q.rec), "finish")
    [] q.op = "prune" -> StartWrite(q, prune_doc(doc, q.M, now), "finish")
    [] OTHER -> [q EXCEPT !.pc = "done"]

\* a process constructs the store: CorrelationStore(state_path)
CallInit(p) ==
  /\ p <= nw
  /\ procs[p].pc = "idle"
  /\ procs' = [procs EXCEPT ![p] = [IdleProc EXCEPT !.pc = "exists", !.op = "__init__"]]
  /\ UNCHANGED <<file, tmp, now, store, last, nw, appVars>>

\* a process that holds a store calls add_event or prune (one of two concurrent
\* writers once)
CallOp(p, op, key, rec, M) ==
  /\ p <= nw
  /\ procs[p].pc = "done"
  /\ procs[p].obj
  /\ nw = 1 \/ procs[p].op = "__init__"
  /\ procs' = [procs EXCEPT ![p] = [IdleProc EXCEPT !.pc = "read", !.obj = TRUE, !.op = op, !.key = key, !.rec = rec, !.M = M]]
  /\ UNCHANGED <<file, tmp, now, store, last, nw, appVars>>

\* __init__, line 45: if not self.path.exists()
StepExists(p) ==
  /\ procs[p].pc = "exists"
  /\ procs' = [procs EXCEPT ![p] = IF file.exists THEN [@ EXCEPT !.pc = "read"]
                                    ELSE StartWrite(@, _empty_doc, "init")]
  /\ UNCHANGED <<file, tmp, now, store, last, nw, appVars>>

\* _read_safe, lines 71-86: read the path and check the text
StepRead(p) ==
  /\ procs[p].pc = "read"
  /\ LET rd == _read_safe(file, TRUE)
         q == [procs[p] EXCEPT !.base = file]
     IN procs' = [procs EXCEPT ![p] =
                    IF rd.raised THEN [q EXCEPT !.pc = "raised"]
                    ELSE IF rd.recovered
                    THEN StartWrite(q, _empty_doc, IF q.op = "__init__" THEN "finish" ELSE "recovered")
                    ELSE IF q.op = "__init__" THEN [q EXCEPT !.pc = "done", !.obj = TRUE]
                    ELSE Proceed(q, rd.doc)]
  /\ UNCHANGED <<file, tmp, now, store, last, nw, appVars>>

\* _write_atomic, line 100: tmp_path.open("w") creates the file or truncates it
StepOpen(p) ==
  /\ procs[p].pc = "w_open"
  /\ procs' = [procs EXCEPT ![p] = [@ EXCEPT !.pc = "w_write", !.fd = "tmp"]]
  /\ tmp' = [exists |-> TRUE, data |-> <<>>, synced |-> FALSE]
  /\ UNCHANGED <<file, now, store, last, nw, appVars>>

\* _write_atomic, line 101: the text reaches the file in one write or in two
StepWrite(p) ==
  /\ procs[p].pc = "w_write"
  /\ LET q == procs[p]
         t == buf(q)
         rest == Len(t) - q.off
     IN \E k \in {rest} \cup (IF q.off = 0 THEN {Len(t) \div 2} ELSE {}) :
          /\ k >= 1
          /\ LET chunk == SubSeq(t, q.off + 1, q.off + k)
             IN /\ procs' = [procs EXCEPT ![p] = [@ EXCEPT !.off = q.off + k,
                                                     !.pc = IF k = rest THEN "w_sync" ELSE "w_write"]]
                /\ tmp' = IF q.fd = "tmp"
                          THEN [tmp EXCEPT !.data = WriteAt(tmp.data, q.off, chunk), !.synced = FALSE]
                          ELSE tmp
                /\ file' = IF q.fd = "canon" THEN FileOf(WriteAt(file.data, q.off, chunk)) ELSE file
  /\ UNCHANGED <<now, store, last, nw, appVars>>

\* _write_atomic, lines 102-103 and the end of the with block: flush, fsync, close
StepSync(p) ==
  /\ procs[p].pc = "w_sync"
  /\ procs' = [procs EXCEPT ![p] = [@ EXCEPT !.pc = "w_replace", !.fd = "closed"]]
  /\ tmp' = IF procs[p].fd = "tmp" THEN [tmp EXCEPT !.synced = TRUE] ELSE tmp
  /\ UNCHANGED <<file, now, store, last, nw, appVars>>

\* where a process goes on after its write
AfterWrite(q) ==
  CASE q.cont = "init" -> [q EXCEPT !.pc = "read"]
    [] q.cont = "recovered" -> Proceed(q, _empty_doc)
    [] q.op = "__init__" -> [q EXCEPT !.pc = "done", !.obj = TRUE]
    [] OTHER -> [q EXCEPT !.pc = "done"]

\* a descriptor after the temp file was renamed over the state path
Renamed(fd) == CASE fd = "tmp" -> "canon" [] fd = "canon" -> "orphan" [] OTHER -> fd

\* _write_atomic, line 106: os.replace(tmp_path, self.path); FileNotFoundError
\* when no file is linked at the temp path
StepReplace(p) ==
  /\ procs[p].pc = "w_replace"
  /\ IF tmp.exists
     THEN /\ file' = FileOf(tmp.data)
          /\ tmp' = NoTmp
          /\ procs' = [x \in Procs |-> IF x = p THEN AfterWrite(procs[p])
                                       ELSE [procs[x] EXCEPT !.fd = Renamed(procs[x].fd)]]
     ELSE /\ procs' = [procs EXCEPT ![p] = [@ EXCEPT !.pc = "raised"]]
          /\ UNCHANGED <<file, tmp>>
  /\ UNCHANGED <<now, store, last, nw, appVars>>

\* the process ends after its last call or with the error that ended it.  A
\* single writer is followed by the next run of the program; of two concurrent
\* writers each is one run
Exit(p) ==
  /\ procs[p].pc \in {"done", "raised"}
  /\ procs' = [procs EXCEPT ![p] = IF nw = 1 THEN IdleProc ELSE [IdleProc EXCEPT !.pc = "exited"]]
  /\ UNCHANGED <<file, tmp, now, store, last, nw, appVars>>

\* the process is killed between two steps; its descriptors are closed
Crash(p) ==
  /\ nw = 1
  /\ procs[p].pc \in {"exists", "read", "w_open", "w_write", "w_sync", "w_replace"}
  /\ procs' = [procs EXCEPT ![p] = [IdleProc EXCEPT !.pc = "crashed"]]
  /\ UNCHANGED <<file, tmp, now, store, last, nw, appVars>>

\* a new process is started after a crash
Restart(p) ==
  /\ procs[p].pc = "crashed"
  /\ procs' = [procs EXCEPT ![p] = IdleProc]
  /\ UNCHANGED <<file, tmp, now, store, last, nw, appVars>>

\* the records the processes append: one each, the second one older
RecOf(p) == new_record("e1", "STEP_OPENED", TsZ(2 - p), "B1", 1)

InitFS ==
  /\ file \in {NoFile, FileOf(<<Junk>>)}
  /\ tmp = NoTmp
  /\ now = 1
  /\ store = FALSE
  /\ last = Op("none", "", 0, FALSE, FALSE, <<>>)
  /\ procs = [p \in Procs |-> IdleProc]
  /\ nw \in {1, 2}
  /\ AppIdle

CallAddEvent(p) ==
  /\ Len(RecordsOf(file)) < MaxRecords
  /\ \E gk \in {"g1", " "}, q \in (IF nw = 1 THEN Procs ELSE {p}) : CallOp(p, "add_event", gk, RecOf(q), 0)
CallPrune(p) == CallOp(p, "prune", "", NoRec, 0)

NextFS ==
  \E p \in Procs :
    \/ CallInit(p) \/ CallAddEvent(p) \/ CallPrune(p)
    \/ StepExists(p) \/ StepRead(p) \/ StepOpen(p) \/ StepWrite(p) \/ StepSync(p) \/ StepReplace(p)
    \/ Exit(p) \/ Crash(p) \/ Restart(p)

SpecFS == InitFS /\ [][NextFS]_vars

(***************************************************************************)
(* C1  Crash safety of the write.  With a single writer the content of the *)
(* state path changes only in the rename step of _write_atomic, and the    *)
(* file renamed over it is the temp file holding the complete new document,*)
(* flushed and fsynced.  So at whatever step the writer is killed, the     *)
(* state path holds the complete previous content or the complete new      *)
(* document.                                                               *)
(***************************************************************************)
C1_CrashSafe ==
  [][(nw = 1 /\ file' # file) =>
       \E p \in Procs :
         /\ procs[p].pc = "w_replace"
         /\ tmp.exists /\ tmp.synced
         /\ tmp.data = buf(procs[p])
         /\ file' = _write_atomic(procs[p].wobj)
         /\ read_ok(file')]_vars

\* the single writer was killed in the middle of a write: the temp file holds a
\* part of the new document, the state path a complete one
C1_Witness ==
  /\ nw = 1
  /\ \E p \in Procs : procs[p].pc = "crashed"
  /\ tmp.exists /\ tmp.data # <<>> /\ ~json_ok(tmp.data)
  /\ read_ok(file) /\ Len(RecordsOf(file)) >= 1

(***************************************************************************)
(* C9  No file corruption under concurrent writers: while two processes    *)
(* run add_event / prune with their steps interleaved, no step turns a     *)
(* complete well-formed document under the state path into anything else   *)
(* than a complete well-formed document.                                   *)
(***************************************************************************)
C9_NoCorruption ==
  [][(/\ nw = 2
      /\ \A p \in Procs : procs[p].op \in {"add_event", "prune"}
      /\ read_ok(file))
     => read_ok(file')]_vars

(***************************************************************************)
(* C10  With a single writer, every add_event with a non-blank group key   *)
(* that returns has increased the number of stored records by exactly one  *)
(* (a file that cannot be read as a document stores none).  With two       *)
(* writers the lost update is reachable: see C10_LostUpdate.               *)
(***************************************************************************)
AddReturned(q) ==
  q.pc = "done" /\ q.op = "add_event" /\ strip(IF q.key = None THEN "" ELSE q.key) # ""

C10_SingleWriterAddsOne ==
  nw = 1 =>
    \A p \in Procs :
      AddReturned(procs[p]) => Len(RecordsOf(file)) = Len(RecordsOf(procs[p].base)) + 1

\* two writers have both returned from add_event, both had read the same
\* document, and the state path holds that document with one record more
C10_LostUpdate ==
  /\ nw = 2
  /\ \A p \in Procs : AddReturned(procs[p])
  /\ procs[1].base = procs[2].base
  /\ read_ok(procs[1].base)
  /\ \E p \in Procs : RecordsOf(file) = RecordsOf(procs[1].base) \o <<<<Obj(RecOf(p))>>>>

(***************************************************************************)
(* The single-process specification of the store.                          *)
(***************************************************************************)
GroupKeyInputs == {None, "", " ", "g1", " g1 ", "g2"}
TimestampInputs == {TsZ(1), TsNaive(1), TsBad, TsEmpty}
MaxAgeInputs == {0, 1}

Init ==
  /\ file = NoFile
  /\ tmp = NoTmp
  /\ now = 0
  /\ store = FALSE
  /\ last = Op("none", "", 0, FALSE, FALSE, <<>>)
  /\ procs = [p \in Procs |-> IdleProc]
  /\ nw = 0
  /\ AppIdle

\* the calls of add_event: every timestamp under "g1", one under the other
\* keys, and a call without batch token
AddInputs ==
  ({"g1"} \X TimestampInputs \X {"B1"})
    \cup ((GroupKeyInputs \ {"g1"}) \X {TsZ(1)} \X {"B1"})
    \cup {<<"g2", TsEmpty, "B1">>, <<"g2", TsZ(1), None>>, <<"g2", TsZ(1), "">>}

AddEvent ==
  /\ Len(RecordsOf(file)) < MaxRecords
  /\ \E inp \in AddInputs : add_event(inp[1], "e1", "STEP_OPENED", inp[2], inp[3])

Prune == \E M \in MaxAgeInputs : prune(M)

GetGroupEvents == \E gk \in {"g1", " g1 ", "g2"} : get_group_events(gk)

Next == Construct \/ AddEvent \/ Prune \/ GetGroupEvents \/ Corrupt \/ Tick

Spec == Init /\ [][Next]_vars

StoreOps == {"__init__", "add_event", "prune", "get_group_events"}
BlankKeys == {None, "", " "}
Aware == {"Z", "+00:00"}
timestamp_of(e) == e[1].r.event_timestamp

(***************************************************************************)
(* C2  Corruption recovery.  When the state file cannot be read as a       *)
(* document (missing, empty, not JSON, root not an object, 'groups'        *)
(* missing or not a mapping), every store operation returns without        *)
(* raising and leaves a valid document: the fresh empty document with the  *)
(* operation's own effect applied to it, i.e. empty groups, or the one     *)
(* appended record when the operation is add_event with a non-blank key.   *)
(***************************************************************************)
C2_CorruptionRecovery ==
  [][(~read_ok(file) /\ last'.op \in StoreOps) =>
       /\ ~last'.raised
       /\ read_ok(file')
       /\ LET d == Dict(file'.data)
              g == Dict(d["groups"])
          IN /\ DOMAIN d = {"groups", "version"}
             /\ d["version"] = <<Str(VERSION)>>
             /\ IF last'.op = "add_event" /\ last'.key \notin BlankKeys
                THEN \E gk \in DOMAIN g : DOMAIN g = {gk} /\ List(g[gk]) = <<last'.ret>>
                ELSE DOMAIN g = {}]_vars

\* add_event with a non-blank key found the file corrupt, recovered, and the
\* document now holds exactly the appended record
C2_Witness ==
  /\ last.op = "add_event"
  /\ last.recovered
  /\ last.key \notin BlankKeys
  /\ RecordsOf(file) = <<last.ret>>

(***************************************************************************)
(* C3  Prune bound.  Immediately after prune(M) invoked at time P, every   *)
(* remaining record has a parsable timestamp with a UTC offset that is     *)
(* >= P - M, and every record whose timestamp equals P - M is still there. *)
(***************************************************************************)
C3_PruneBound ==
  [][last'.op = "prune" =>
       LET cutoff == now - last'.M
           before == RecordsOf(file)
           after == RecordsOf(file')
       IN /\ \A i \in DOMAIN after :
               timestamp_of(after[i]).z \in Aware /\ timestamp_of(after[i]).t >= cutoff
          /\ \A i \in DOMAIN before :
               (timestamp_of(before[i]).z \in Aware /\ timestamp_of(before[i]).t = cutoff)
                 => \E j \in DOMAIN after : after[j] = before[i]]_vars

\* prune(1) has run and a record stamped exactly one minute before the prune is in the file
C3_Witness ==
  /\ last.op = "prune"
  /\ last.M = 1
  /\ \E i \in DOMAIN RecordsOf(file) : timestamp_of(RecordsOf(file)[i]).t = now - 1

(***************************************************************************)
(* C7  Empty group key is a no-op: add_event with a group key that is      *)
(* None, empty or whitespace-only never raises and leaves the persisted    *)
(* file unchanged, whatever the state of the file before the call.         *)
(***************************************************************************)
C7_BlankKeyNoOp ==
  [][(last'.op = "add_event" /\ last'.key \in BlankKeys) =>
       (~last'.raised /\ file' = file)]_vars

(***************************************************************************)
(* C7 (amended)  add_event with a blank group key never raises and         *)
(* appends no record.  A file that reads as a document is left unchanged;  *)
(* a file that does not is replaced by the fresh empty document.           *)
(***************************************************************************)
C7_BlankKeyAmended ==
  [][(last'.op = "add_event" /\ last'.key \in BlankKeys) =>
       /\ ~last'.raised
       /\ RecordsOf(file') = RecordsOf(file)
       /\ read_ok(file) => file' = file
       /\ ~read_ok(file) =>
            file' = FileOf(<<LB, Key("groups"), LB, RB, Key("version"), Str(VERSION), RB>>)]_vars

\* add_event with a blank key found the file corrupt and rewrote it
C7_Witness ==
  /\ last.op = "add_event"
  /\ last.key \in BlankKeys
  /\ last.recovered
  /\ RecordsOf(file) = <<>>

\* the file reads as a document that has no 'version' field
VersionAbsent(f) == read_ok(f) /\ "version" \notin DOMAIN Dict(f.data)

\* the operation of the step wrote the document it had read: prune, or
\* add_event with a group key that is not blank
Wrote(l) == l.op = "prune" \/ (l.op = "add_event" /\ l.key \notin BlankKeys)

(***************************************************************************)
(* C17  Document invariant with full reset.  After any store operation the *)
(* persisted document has a 'groups' mapping and a 'version' field; when   *)
(* the read finds the document unreadable or finds 'groups' or 'version'   *)
(* absent, the whole document is reset: no record that was stored before   *)
(* the operation is kept.                                                  *)
(***************************************************************************)
C17_FullReset ==
  [][last'.op \in StoreOps =>
       /\ read_ok(file')
       /\ "version" \in DOMAIN Dict(file'.data)
       /\ (~read_ok(file) \/ VersionAbsent(file)) =>
            RecordsOf(file') = (IF last'.op = "add_event" /\ last'.key \notin BlankKeys
                                THEN <<last'.ret>> ELSE <<>>)]_vars

(***************************************************************************)
(* C17 (amended)  After any store operation the persisted document has a   *)
(* 'groups' mapping.  A file that cannot be read as a document with a      *)
(* 'groups' mapping is reset as a whole to the empty document, to which    *)
(* the operation is then applied.  A document that lacks only 'version' is *)
(* not reset: its groups are kept, an operation that writes (prune, or     *)
(* add_event with a non-blank key) applies to them and writes the current  *)
(* version, and an operation that does not write leaves the file as it is, *)
(* without 'version'.  A document that has a 'version' keeps it.           *)
(***************************************************************************)
C17_ResetOrPatch ==
  [][last'.op \in StoreOps =>
       /\ read_ok(file')
       /\ ~read_ok(file) =>
            /\ Dict(file'.data)["version"] = <<Str(VERSION)>>
            /\ RecordsOf(file') = (IF last'.op = "add_event" /\ last'.key \notin BlankKeys
                                   THEN <<last'.ret>> ELSE <<>>)
       /\ (read_ok(file) /\ ~VersionAbsent(file)) =>
            ("version" \in DOMAIN Dict(file'.data) /\ Dict(file'.data)["version"] = Dict(file.data)["version"])
       /\ VersionAbsent(file) =>
            /\ ~last'.recovered
            /\ IF Wrote(last')
               THEN /\ Dict(file'.data)["version"] = <<Str(VERSION)>>
                    /\ last'.op = "add_event" => Len(RecordsOf(file')) = Len(RecordsOf(file)) + 1
                    /\ last'.op = "prune" =>
                         RecordsOf(file') = SelectSeq(RecordsOf(file), LAMBDA e : keeps(e, now - last'.M))
               ELSE file' = file]_vars

\* get_group_events has returned the two records of a document that has no
\* 'version' field, and the file still holds that document
C17_Witness ==
  /\ last.op = "get_group_events"
  /\ ~last.recovered
  /\ VersionAbsent(file)
  /\ Len(RecordsOf(file)) = 2
  /\ Len(List(last.ret)) = 2

\* a is b with some of its elements left out
RECURSIVE SubSeqOf(_, _, _, _)
SubSeqOf(a, i, b, j) ==
  IF i > Len(a) THEN TRUE
  ELSE IF j > Len(b) THEN FALSE
  ELSE IF a[i] = b[j] THEN SubSeqOf(a, i + 1, b, j + 1)
  ELSE SubSeqOf(a, i, b, j + 1)

\* the group keys of the document in a file
GroupsIn(f) == IF read_ok(f) THEN DOMAIN groups_of(Dict(f.data)) ELSE {}

(***************************************************************************)
(* C18  Pruning is monotonic.  Every prune leaves at most as many records  *)
(* as it found, the records it leaves are records it found, in their       *)
(* order, under group keys it found, and each of them has a timestamp      *)
(* within the age window of that prune at its invocation time; so a record *)
(* that is present after N prunes was within the window at each of them.   *)
(***************************************************************************)
C18_PruneMonotonic ==
  [][last'.op = "prune" =>
       /\ Len(RecordsOf(file')) <= Len(RecordsOf(file))
       /\ SubSeqOf(RecordsOf(file'), 1, RecordsOf(file), 1)
       /\ GroupsIn(file') \subseteq GroupsIn(file)
       /\ \A gk \in GroupsIn(file') :
            LET after == List(groups_of(Dict(file'.data))[gk])
            IN /\ after # <<>>
               /\ SubSeqOf(after, 1, List(groups_of(Dict(file.data))[gk]), 1)
               /\ \A i \in DOMAIN after :
                    /\ timestamp_of(after[i]).z \in Aware
                    /\ now - last'.M <= timestamp_of(after[i]).t]_vars

\* a prune with max age 0 has run after the clock moved, on a readable file,
\* and has left one group with one record stamped at the time of the prune
C18_Witness ==
  /\ last.op = "prune"
  /\ last.M = 0
  /\ ~last.recovered
  /\ now > 0
  /\ \E gk \in GroupsIn(file) :
       /\ GroupsIn(file) = {gk}
       /\ Len(RecordsOf(file)) = 1
       /\ timestamp_of(RecordsOf(file)[1]).t = now

(***************************************************************************)
(* C19  get_group_events is read-only.  On a state file that reads as a    *)
(* document it returns the sequence stored under the given key, in the     *)
(* stored order, or an empty sequence when the key is absent, and leaves   *)
(* the file unchanged; the file changes only when it could not be read,    *)
(* through the recovery of the safe read, and then the result is empty.    *)
(***************************************************************************)
C19_GetGroupEventsReadOnly ==
  [][last'.op = "get_group_events" =>
       /\ ~last'.raised
       /\ read_ok(file) =>
            /\ file' = file
            /\ ~last'.recovered
            /\ islist(last'.ret)
            /\ IF last'.key \in GroupsIn(file)
               THEN List(last'.ret) = List(Dict(Dict(file.data)["groups"])[last'.key])
               ELSE List(last'.ret) = <<>>
       /\ ~read_ok(file) => (last'.recovered /\ List(last'.ret) = <<>>)
       /\ file' # file => (~read_ok(file) /\ file' = _write_atomic(_empty_doc))]_vars

\* get_group_events has returned two different records of one group, in the
\* order the file holds them
C19_Witness ==
  /\ last.op = "get_group_events"
  /\ read_ok(file)
  /\ ~VersionAbsent(file)
  /\ last.key \in GroupsIn(file)
  /\ Len(List(last.ret)) = 2
  /\ List(last.ret)[1] # List(last.ret)[2]
  /\ RecordsOf(file) = List(last.ret)

(***************************************************************************)
(* The round trip: a caller holds a well-formed document, writes it with   *)
(* _write_atomic and reads it back with _read_safe.                        *)
(***************************************************************************)
RTKeys == {"g1", "g2"}
RTRecords ==
  {new_record("e1", "STEP_OPENED", TsZ(0), "B1", 0),
   new_record("e2", "STEP_COMPLETED", TsNaive(1), None, 0)}
RTVersions == {VERSION, "0.0"}

\* the sequences over S of length at most n
SeqsUpTo(S, n) == UNION {[1..m -> S] : m \in 0..n}

\* the document with the given version and groups, as a Python dict
document(version, groups) ==
  Put(Put(EmptyDict, "version", <<Str(version)>>),
      "groups", DumpDict([k \in DOMAIN groups |->
                            DumpList([i \in 1..Len(groups[k]) |-> <<Obj(groups[k][i])>>])]))

InitRT ==
  /\ file = NoFile
  /\ tmp = NoTmp
  /\ now = 0
  /\ store = TRUE
  /\ last = Op("none", "", 0, FALSE, FALSE, <<>>)
  /\ procs = [p \in Procs |-> IdleProc]
  /\ nw = 0
  /\ \E K \in SUBSET RTKeys, v \in RTVersions :
       \E g \in [K -> SeqsUpTo(RTRecords, MaxRecords)] :
         rt = [phase |-> "held", version |-> v, groups |-> g, got |-> EmptyDict]
  /\ cfg = Config(TRUE, 1, 1, <<"QA">>, "HIGH")
  /\ supp = EmptyDict
  /\ alerts = <<>>
  /\ out = NoSweep
  /\ call = NoCall

Write ==
  /\ rt.phase = "held"
  /\ file' = _write_atomic(document(rt.version, rt.groups))
  /\ rt' = [rt EXCEPT !.phase = "written"]
  /\ UNCHANGED <<tmp, now, store, last, fsVars, cfg, supp, alerts, out, call>>

Read ==
  /\ rt.phase = "written"
  /\ rt' = [rt EXCEPT !.phase = "read", !.got = _read_safe(file, FALSE).doc]
  /\ UNCHANGED <<file, tmp, now, store, last, fsVars, cfg, supp, alerts, out, call>>

NextRT == Write \/ Read

SpecRT == InitRT /\ [][NextRT]_vars

(***************************************************************************)
(* C8  Round trip.  A well-formed document written with the atomic write   *)
(* and read back with the safe read has the same version, the same group   *)
(* keys and, per group, the same records in the same order.                *)
(***************************************************************************)
C8_RoundTrip ==
  rt.phase = "read" =>
    /\ DOMAIN rt.got = {"groups", "version"}
    /\ rt.got["version"] = <<Str(rt.version)>>
    /\ isdict(rt.got["groups"])
    /\ LET g == Dict(rt.got["groups"])
       IN /\ DOMAIN g = DOMAIN rt.groups
          /\ \A k \in DOMAIN g :
               /\ islist(g[k])
               /\ Len(List(g[k])) = Len(rt.groups[k])
               /\ \A i \in 1..Len(rt.groups[k]) : List(g[k])[i] = <<Obj(rt.groups[k][i])>>

\* a document with two groups, one of them holding two different records, was read back
C8_Witness ==
  /\ rt.phase = "read"
  /\ DOMAIN rt.groups = RTKeys
  /\ Len(rt.groups["g1"]) = 2
  /\ rt.groups["g1"][1] # rt.groups["g1"][2]

(***************************************************************************)
(* The sweep specification: a constructed store, events appended to it,    *)
(* the clock, and sweep invocations under one configuration.               *)
(***************************************************************************)
SweepConfigs ==
  {Config(TRUE, 1, 1, <<"QA">>, "HIGH"),
   Config(TRUE, 1, 2, <<"QA">>, "HIGH"),
   Config(TRUE, 1, 1, <<"EXT">>, "HIGH"),
   Config(TRUE, 1, 1, <<"QA">>, None)}

\* the events appended: <<group key, event id, event type, timestamp, batch token>>
SweepEvents ==
  {<<"g1", "e1", "STEP_OPENED", TsZ(0), "B1">>,
   <<"g1", "", "STEP_OPENED", TsIso(0), "B2">>,
   <<"g1", "e2", "STEP_COMPLETED", TsZ(1), "B1">>,
   <<"g1", "e4", "STEP_OPENED", TsNaive(0), "B1">>,
   <<"g2", "e6", "STEP_OPENED", TsZ(0), "B1">>}

InitSweep ==
  /\ file = _write_atomic(_empty_doc)
  /\ tmp = NoTmp
  /\ now = 0
  /\ store = TRUE
  /\ last = Op("none", "", 0, FALSE, FALSE, <<>>)
  /\ procs = [p \in Procs |-> IdleProc]
  /\ nw = 0
  /\ rt = NoRT
  /\ cfg \in SweepConfigs
  /\ supp = EmptyDict
  /\ alerts = <<>>
  /\ out = NoSweep
  /\ call = NoCall

StoreEvent ==
  /\ Len(RecordsOf(file)) < MaxRecords
  /\ \E ev \in SweepEvents : add_event(ev[1], ev[2], ev[3], ev[4], ev[5])

NextSweep == StoreEvent \/ Sweep \/ Tick

SpecSweep == InitSweep /\ [][NextSweep]_vars

\* the groups of the state file and the record at a position
StoredGroups == groups_of(Dict(file.data))
StoredAt(gk, i) == List(StoredGroups[gk])[i][1].r
StoredPositions ==
  {ps \in (DOMAIN StoredGroups) \X (1..MaxRecords) : ps[2] <= Len(List(StoredGroups[ps[1]]))}
Range(q) == {q[i] : i \in DOMAIN q}

\* the record at pos is an open with batch token and a UTC timestamp
IsOpen(pos) ==
  LET r == StoredAt(pos[1], pos[2])
  IN r.event_type = "STEP_OPENED" /\ r.batch_token # None /\ r.event_timestamp.z \in Aware

\* the record at pos is a completion of the configured pair type for batch token bt
IsCompletion(pos, bt) ==
  LET r == StoredAt(pos[1], pos[2])
  IN r.event_type = cfg.pair_with_event_type /\ r.batch_token = bt

(***************************************************************************)
(* C4  Resolved open produces no alert.  If a group holds an open at T     *)
(* with batch token B and the same group holds a record of the pair type   *)
(* for B at T + D with 0 <= D <= threshold, a sweep at any time            *)
(* >= T + threshold makes no candidate and appends no alert for that open, *)
(* whatever the order of the records and whatever else is stored.          *)
(***************************************************************************)
C4_ResolvedOpenNoAlert ==
  last.op = "sweep" =>
    \A pos \in StoredPositions :
      LET T == StoredAt(pos[1], pos[2]).event_timestamp.t
      IN (/\ IsOpen(pos)
          /\ now >= T + cfg.threshold_minutes
          /\ \E q \in StoredPositions :
               /\ q[1] = pos[1]
               /\ IsCompletion(q, StoredAt(pos[1], pos[2]).batch_token)
               /\ StoredAt(q[1], q[2]).event_timestamp.z \in Aware
               /\ T <= StoredAt(q[1], q[2]).event_timestamp.t
               /\ StoredAt(q[1], q[2]).event_timestamp.t <= T + cfg.threshold_minutes)
         => /\ \A k \in DOMAIN out.cands : out.cands[k].open # pos
            /\ pos \notin Range(out.appended)

\* a sweep ran to its end over an overdue open whose completion is stamped
\* exactly at the deadline
C4_Witness ==
  /\ last.op = "sweep"
  /\ out.ret = 0 /\ ~out.raised
  /\ \E pos \in StoredPositions, q \in StoredPositions :
       /\ IsOpen(pos)
       /\ q[1] = pos[1]
       /\ IsCompletion(q, StoredAt(pos[1], pos[2]).batch_token)
       /\ StoredAt(q[1], q[2]).event_timestamp.z \in Aware
       /\ StoredAt(q[1], q[2]).event_timestamp.t =
            StoredAt(pos[1], pos[2]).event_timestamp.t + cfg.threshold_minutes
       /\ now >= StoredAt(q[1], q[2]).event_timestamp.t

(***************************************************************************)
(* C5  Unresolved open produces exactly one candidate.  If a group holds   *)
(* an open at T with batch token B and no completion for B, an enabled     *)
(* sweep at a time > T + threshold makes exactly one synthetic event for   *)
(* that open, stamped T + threshold, with an event id derived from B and T *)
(* when the record has none.                                               *)
(***************************************************************************)
C5_UnresolvedOpenOneCandidate ==
  (last.op = "sweep" /\ cfg.enabled) =>
    \A pos \in StoredPositions :
      LET r == StoredAt(pos[1], pos[2])
          T == r.event_timestamp.t
          mine == {k \in DOMAIN out.cands : out.cands[k].open = pos}
      IN (/\ IsOpen(pos)
          /\ now > T + cfg.threshold_minutes
          /\ \A q \in StoredPositions : q[1] = pos[1] => ~IsCompletion(q, r.batch_token))
         => /\ Cardinality(mine) = 1
            /\ \A k \in mine :
                 /\ out.cands[k].event.event_timestamp = isoformat(T + cfg.threshold_minutes)
                 /\ r.event_id = "" => out.cands[k].event.event_id = SweepEventId(r.batch_token, T)
                 /\ r.event_id # "" => out.cands[k].event.event_id = EventId(r.event_id)

(***************************************************************************)
(* C6  Re-sweep is suppressed.  When the sweep is invoked twice in         *)
(* succession with no change to the correlation state in between and the   *)
(* suppression window is greater than or equal to the time elapsed between *)
(* the two invocations, no open whose alert the first invocation appended  *)
(* has an alert appended by the second.                                    *)
(***************************************************************************)
C6_ReSweepSuppressed ==
  [][(/\ last'.op = "sweep"
      /\ out.at >= 0
      /\ out.state = file
      /\ cfg.window_minutes >= now - out.at)
     => Range(out.appended) \cap Range(out'.appended) = {}]_vars

(***************************************************************************)
(* C6 (amended)  The same with a suppression window strictly greater than  *)
(* the elapsed time: then the second invocation appends no alert for an    *)
(* open whose alert the first invocation appended, and reports each such   *)
(* open it reaches as suppressed.                                          *)
(***************************************************************************)
C6_ReSweepAmended ==
  [][(/\ last'.op = "sweep"
      /\ out.at >= 0
      /\ out.state = file
      /\ cfg.window_minutes > now - out.at)
     => /\ Range(out.appended) \cap Range(out'.appended) = {}
        /\ \A pos \in Range(out.appended) :
             (\E k \in DOMAIN out'.cands : out'.cands[k].open = pos) => pos \in Range(out'.suppressed)]_vars

\* a second sweep ran later than the first, within the window and on the same
\* state, and suppressed a candidate whose alert the first had put into the sink
C6_Witness ==
  /\ last.op = "sweep"
  /\ out.prev_at >= 0
  /\ out.prev_same
  /\ out.at > out.prev_at
  /\ cfg.window_minutes > out.at - out.prev_at
  /\ \E k \in DOMAIN out.cands, a \in DOMAIN alerts :
       /\ out.cands[k].open \in Range(out.suppressed)
       /\ alerts[a].created_at = out.prev_at
       /\ alerts[a].event_refs = <<out.cands[k].event.event_id>>

\* the open at pos is overdue at the time of the sweep: its deadline is not after now
Overdue(pos) == StoredAt(pos[1], pos[2]).event_timestamp.t + cfg.threshold_minutes <= now

\* the group of the open at pos holds no completion for its batch token that
\* carries a UTC offset and lies in the resolution window
Unresolved(pos) ==
  LET r == StoredAt(pos[1], pos[2])
  IN \A q \in StoredPositions :
       (q[1] = pos[1] /\ IsCompletion(q, r.batch_token) /\ StoredAt(q[1], q[2]).event_timestamp.z \in Aware)
         => ~in_window(r.event_timestamp.t, StoredAt(q[1], q[2]).event_timestamp.t, cfg.threshold_minutes)

\* the sweep made a candidate from the open at pos
HasCandidate(o, pos) == \E k \in DOMAIN o.cands : o.cands[k].open = pos

(***************************************************************************)
(* C13  Bad timestamps are isolated.  A sweep never raises on a record     *)
(* whose timestamp is malformed or carries no UTC offset: it skips the     *)
(* record, and every open that is overdue and unresolved (in the same and  *)
(* in other groups) is still made a candidate by that invocation.          *)
(***************************************************************************)
C13_BadTimestampsIsolated ==
  last.op = "sweep" =>
    /\ ~out.raised
    /\ \A pos \in StoredPositions :
         (IsOpen(pos) /\ Overdue(pos) /\ Unresolved(pos)) => HasCandidate(out, pos)

\* the audit records that report the drop of the candidate made from the open at pos
DropRecords(pos) ==
  {k \in DOMAIN out.audit :
     /\ out.audit[k].open = pos
     /\ out.audit[k].record_type \in {"INTERNAL_ERROR", "ALERT_SUPPRESSED"}}

\* the sweep dropped the candidate it made from the open at pos
Dropped(pos) == HasCandidate(out, pos) /\ pos \notin Range(out.appended)

(***************************************************************************)
(* C14  Policy rejections and schema violations are isolated.  When a      *)
(* sweep drops a candidate (routing rejects the consumers, the gate        *)
(* suppresses, or the alert fails validation), that candidate has exactly  *)
(* one audit record of the drop and no alert, every other overdue          *)
(* unresolved open is still made a candidate, and the sweep ends with a    *)
(* success result.                                                         *)
(***************************************************************************)
C14_DropsIsolated ==
  (last.op = "sweep" /\ \E pos \in StoredPositions : Dropped(pos)) =>
    /\ out.ret = 0
    /\ ~out.raised
    /\ \A pos \in StoredPositions :
         /\ Dropped(pos) => Cardinality(DropRecords(pos)) = 1
         /\ (IsOpen(pos) /\ Overdue(pos) /\ Unresolved(pos)) => HasCandidate(out, pos)

(***************************************************************************)
(* C15  The sweep never modifies correlation records.  A sweep leaves the  *)
(* state file as it found it, and every stored open without completion for *)
(* its batch token in its group is made a candidate by every sweep invoked *)
(* at or after its deadline.                                               *)
(***************************************************************************)
C15_SweepKeepsRecords ==
  [][last'.op = "sweep" =>
       /\ file' = file
       /\ \A pos \in StoredPositions :
            (/\ IsOpen(pos)
             /\ Overdue(pos)
             /\ \A q \in StoredPositions :
                  q[1] = pos[1] => ~IsCompletion(q, StoredAt(pos[1], pos[2]).batch_token))
            => HasCandidate(out', pos)]_vars

(***************************************************************************)
(* The setup specification: the program is run in sweep mode, or the sweep *)
(* is invoked on a store constructed earlier, under a configuration        *)
(* artifact that is in order, disabled, missing or unparsable, over a      *)
(* state file that events are appended to and that is damaged from outside.*)
(***************************************************************************)
SetupConfigs ==
  {Config(TRUE, 1, 1, <<"QA">>, "HIGH"),
   Config(FALSE, 1, 1, <<"QA">>, "HIGH"),
   [Config(TRUE, 1, 1, <<"QA">>, "HIGH") EXCEPT !.load = "missing"],
   [Config(TRUE, 1, 1, <<"QA">>, "HIGH") EXCEPT !.load = "notjson"],
   [Config(TRUE, 1, 1, <<"QA">>, "HIGH") EXCEPT !.load = "notdict"]}

SetupEvents ==
  {<<"g1", "e1", "STEP_OPENED", TsZ(0), "B1">>}

InitSetup ==
  /\ file = NoFile
  /\ tmp = NoTmp
  /\ now = 0
  /\ store = FALSE
  /\ last = Op("none", "", 0, FALSE, FALSE, <<>>)
  /\ procs = [p \in Procs |-> IdleProc]
  /\ nw = 0
  /\ rt = NoRT
  /\ cfg \in SetupConfigs
  /\ supp = EmptyDict
  /\ alerts = <<>>
  /\ out = NoSweep
  /\ call = NoCall

SetupStoreEvent ==
  /\ Len(RecordsOf(file)) < MaxRecords
  /\ \E ev \in SetupEvents : add_event(ev[1], ev[2], ev[3], ev[4], ev[5])

NextSetup == main_sweep \/ Sweep \/ SetupStoreEvent \/ Corrupt \/ Tick

SpecSetup == InitSetup /\ [][NextSetup]_vars

SweepOps == {"sweep", "main_sweep"}

(***************************************************************************)
(* C11  Fatal setup errors abort the sweep.  If the sweep configuration is *)
(* missing or unparsable, or (the sweep being enabled) the correlation     *)
(* state is unreadable or malformed (not JSON, root not an object,         *)
(* 'groups' missing or not a mapping), the sweep invocation returns a      *)
(* failure signal, appends no alert and leaves the suppression state       *)
(* unchanged.  The state is the one the sweep's own read finds.            *)
(***************************************************************************)
C11_FatalSetupAborts ==
  [][(/\ last'.op \in SweepOps
      /\ \/ load_json_obj_raises(cfg)
         \/ enabled_of(cfg) /\ ~read_ok(out'.state))
     => (out'.ret # 0 /\ alerts' = alerts /\ supp' = supp)]_vars

(***************************************************************************)
(* C12  Distinct failure signals.  A sweep that returns a failure has      *)
(* written one error record to the audit trail, and the error code of the  *)
(* record tells a configuration error from a correlation-state error (the  *)
(* case of a 'groups' that is not a mapping included).                     *)
(***************************************************************************)
C12_DistinctFailureSignals ==
  (last.op \in SweepOps /\ out.ret # 0) =>
    /\ Len(out.audit) = 1
    /\ out.audit[1].record_type = "INTERNAL_ERROR"
    /\ load_json_obj_raises(cfg) <=> out.audit[1].error_code = "SWEEP_CONFIG_LOAD_FAILED"
    /\ ~load_json_obj_raises(cfg) <=> out.audit[1].error_code = "CORRELATION_STATE_READ_FAILED"

(***************************************************************************)
(* C16  No reset-to-empty on the sweep path.  When the program is run in   *)
(* sweep mode (configuration in order and enabled) and finds a state file  *)
(* that exists but cannot be read as a document, the invocation returns    *)
(* the state-error signal and leaves the file as it found it.              *)
(***************************************************************************)
C16_SweepPathNoRecovery ==
  [][(/\ last'.op = "main_sweep"
      /\ ~load_json_obj_raises(cfg)
      /\ enabled_of(cfg)
      /\ file.exists
      /\ ~read_ok(file))
     => (out'.ret = 2 /\ file' = file)]_vars

(***************************************************************************)
(* C20  Disabled sweep does nothing.  When the configuration loads and has *)
(* enabled = false, the sweep does not read the correlation state, calls   *)
(* neither the routing policy nor the suppression gate (it makes no        *)
(* candidate and writes no audit record), appends no alert, leaves the     *)
(* suppression state unchanged and returns zero.                           *)
(***************************************************************************)
C20_DisabledSweepDoesNothing ==
  [][(last'.op \in SweepOps /\ ~load_json_obj_raises(cfg) /\ ~cfg.enabled)
     => /\ out'.ret = 0
        /\ ~out'.read
        /\ out'.cands = <<>>
        /\ out'.audit = <<>>
        /\ alerts' = alerts
        /\ supp' = supp]_vars

\* a disabled sweep has returned zero over a state that holds an overdue open
\* without completion
C20_Witness ==
  /\ last.op = "sweep"
  /\ ~cfg.enabled
  /\ out.ret = 0
  /\ read_ok(file)
  /\ \E pos \in StoredPositions :
       /\ IsOpen(pos)
       /\ now > StoredAt(pos[1], pos[2]).event_timestamp.t + cfg.threshold_minutes

(***************************************************************************)
(* The group key (app.py lines 98-108).  A field value is a text, a        *)
(* sequence of characters, or it is absent (event.get gives None).         *)
(***************************************************************************)
Absent == [none |-> TRUE, s |-> <<>>]
Text(s) == [none |-> FALSE, s |-> s]

RECURSIVE lstrip(_)
lstrip(s) == IF s # <<>> /\ Head(s) = " " THEN lstrip(Tail(s)) ELSE s

RECURSIVE rstrip(_)
rstrip(s) == IF s # <<>> /\ s[Len(s)] = " " THEN rstrip(SubSeq(s, 1, Len(s) - 1)) ELSE s

\* str.strip() on a sequence of characters
str_strip(s) == rstrip(lstrip(s))

\* _safe_str (lines 65-69) on texts: None stays None, a blank text becomes None
_safe_str_text(v) ==
  IF v.none THEN Absent
  ELSE IF str_strip(v.s) = <<>> THEN Absent ELSE Text(str_strip(v.s))

\* `x or ""`
or_empty(v) == IF v.none THEN <<>> ELSE v.s

\* sep.join(parts)
RECURSIVE join(_, _)
join(sep, parts) ==
  IF parts = <<>> THEN <<>>
  ELSE IF Len(parts) = 1 THEN parts[1]
  ELSE parts[1] \o sep \o join(sep, Tail(parts))

GroupKeyFields ==
  <<"site", "area", "product_id", "dbr_template_id", "step_code", "section_code">>

\* a group key that leaves section_code out
_make_group_key_five(event) ==
  join(<<"|">>, [i \in 1..5 |-> or_empty(_safe_str_text(event[GroupKeyFields[i]]))])

_make_group_key(event) ==
  join(<<"|">>, [i \in 1..6 |-> or_empty(_safe_str_text(event[GroupKeyFields[i]]))])

\* the field values of the events the group key is built from
KeyTexts ==
  {Absent, Text(<<>>), Text(<<"a">>), Text(<<" ", "a">>), Text(<<"a", "|", "a">>)}

KeyFieldSet == {GroupKeyFields[i] : i \in 1..6}

\* how many fields of an event may differ from the text "a"
MaxVaried == 1

KeyEvents ==
  {e \in [KeyFieldSet -> KeyTexts] :
     Cardinality({f \in KeyFieldSet : e[f] # Text(<<"a">>)}) <= MaxVaried}

InitKey ==
  /\ file = _write_atomic(_empty_doc)
  /\ tmp = NoTmp
  /\ now = 0
  /\ store = TRUE
  /\ last = Op("none", "", 0, FALSE, FALSE, <<>>)
  /\ procs = [p \in Procs |-> IdleProc]
  /\ nw = 0
  /\ rt = NoRT
  /\ cfg = Config(TRUE, 1, 1, <<"QA">>, "HIGH")
  /\ supp = EmptyDict
  /\ alerts = <<>>
  /\ out = NoSweep
  /\ \E a \in KeyEvents, b \in KeyEvents : call = [op |-> "events", a |-> a, b |-> b]

\* the group keys of the two events are built
make_group_keys ==
  /\ call.op = "events"
  /\ call' = [op |-> "keys", a |-> call.a, b |-> call.b,
              ka |-> _make_group_key(call.a), kb |-> _make_group_key(call.b)]
  /\ UNCHANGED <<file, tmp, now, store, last, fsVars, rt, cfg, supp, alerts, out>>

NextKey == make_group_keys

SpecKey == InitKey /\ [][NextKey]_vars

\* a field as the claim compares it: an absent field counts as the empty string
FieldValue(v) == IF v.none THEN <<>> ELSE v.s

\* x is s without its leading and trailing spaces
IsTrimOf(x, s) ==
  \E i \in 0..Len(s), j \in 0..Len(s) :
    /\ i + j <= Len(s)
    /\ x = SubSeq(s, i + 1, Len(s) - j)
    /\ \A k \in 1..i : s[k] = " "
    /\ \A k \in (Len(s) - j + 1)..Len(s) : s[k] = " "
    /\ (x = <<>> \/ (x[1] # " " /\ x[Len(x)] # " "))

\* a field without its surrounding whitespace, absent and blank being empty
Normalised(v) ==
  CHOOSE x \in {SubSeq(FieldValue(v), i, j) : i \in 1..(Len(FieldValue(v)) + 1),
                                                j \in 0..Len(FieldValue(v))} :
    IsTrimOf(x, FieldValue(v))

HasDelimiter(e) ==
  \E f \in KeyFieldSet : \E k \in 1..Len(Normalised(e[f])) : Normalised(e[f])[k] = "|"

\* C21 (as stated): for any two events the group keys are equal if and only
\* if all six fields of the two events are equal, an absent field counting
\* as the empty string.
C21_GroupKeyInjective ==
  call.op = "keys" =>
    ((call.ka = call.kb) <=>
       (\A f \in KeyFieldSet : FieldValue(call.a[f]) = FieldValue(call.b[f])))

\* C21 (amended): two events whose six fields are equal after their
\* surrounding whitespace is removed (absent and blank fields being empty)
\* have the same group key; and when no field of either event holds the
\* delimiter "|", equal group keys mean that the six fields are equal after
\* their surrounding whitespace is removed.
C21_GroupKeyInjectiveNormalised ==
  call.op = "keys" =>
    /\ (\A f \in KeyFieldSet : Normalised(call.a[f]) = Normalised(call.b[f]))
         => call.ka = call.kb
    /\ (~HasDelimiter(call.a) /\ ~HasDelimiter(call.b) /\ call.ka = call.kb)
         => (\A f \in KeyFieldSet : Normalised(call.a[f]) = Normalised(call.b[f]))

\* two events without delimiter whose fields differ in whitespace only have
\* been given the same key
C21_Witness ==
  /\ call.op = "keys"
  /\ call.ka = call.kb
  /\ ~HasDelimiter(call.a) /\ ~HasDelimiter(call.b)
  /\ \E f \in KeyFieldSet : FieldValue(call.a[f]) # FieldValue(call.b[f])
  /\ \E f \in KeyFieldSet : Normalised(call.a[f]) # <<>>

(***************************************************************************)
(* The sweep over a correlation state that holds any records: opens and    *)
(* completions with and without batch token, with a timestamp that is      *)
(* missing, malformed or in UTC, early and late completions,               *)
(* and a completion filed under another group key.                         *)
(***************************************************************************)
MatchRecord(event_id, event_type, event_timestamp, batch_token) ==
  [event_id |-> event_id, event_type |-> event_type,
   event_timestamp |-> event_timestamp, batch_token |-> batch_token]

MatchRecords ==
  {MatchRecord("e1", "STEP_OPENED", TsZ(0), "B1"),
   MatchRecord("e3", "STEP_OPENED", TsZ(1), "B1"),
   MatchRecord("", "STEP_OPENED", TsEmpty, "B1"),
   MatchRecord("e5", "STEP_OPENED", TsBad, "B1"),
   MatchRecord("e7", "STEP_OPENED", TsZ(0), None),
   MatchRecord("e8", "STEP_OPENED", TsZ(0), " "),
   MatchRecord("c1", "STEP_COMPLETED", TsZ(0), "B1"),
   MatchRecord("c2", "STEP_COMPLETED", TsZ(1), "B1"),
   MatchRecord("c4", "STEP_COMPLETED", TsZ(0), "B2"),
   MatchRecord("c5", "STEP_COMPLETED", TsZ(0), None),
   MatchRecord("c6", "STEP_COMPLETED", TsEmpty, "B1"),
   MatchRecord("c7", "STEP_COMPLETED", TsBad, "B1")}

\* the group g2 holds a completion for B1
OtherGroup == <<MatchRecord("c8", "STEP_COMPLETED", TsZ(0), "B1")>>

MatchConfigs ==
  {Config(TRUE, -1, 1, <<"QA">>, "HIGH"),
   Config(TRUE, 0, 1, <<"QA">>, "HIGH"),
   Config(TRUE, 1, 1, <<"QA">>, "HIGH")}

InitMatch ==
  /\ \E g1 \in SeqsUpTo(MatchRecords, MaxRecords) :
       file = _write_atomic(document(VERSION,
                [k \in {"g1", "g2"} |-> IF k = "g1" THEN g1 ELSE OtherGroup]))
  /\ tmp = NoTmp
  /\ now = 0
  /\ store = TRUE
  /\ last = Op("none", "", 0, FALSE, FALSE, <<>>)
  /\ procs = [p \in Procs |-> IdleProc]
  /\ nw = 0
  /\ rt = NoRT
  /\ cfg \in MatchConfigs
  /\ supp = EmptyDict
  /\ alerts = <<>>
  /\ out = NoSweep
  /\ call = NoCall

\* the sweep is invoked at most twice
MatchSweep == out.prev_at < 0 /\ Sweep

NextMatch == MatchSweep \/ Tick

SpecMatch == InitMatch /\ [][NextMatch]_vars

\* the synthetic event ids and suppression keys of two candidates agree
SameIdentity(c1, c2) ==
  /\ c1.event.event_id = c2.event.event_id
  /\ _suppression_key(c1.event, cfg.rule_id) = _suppression_key(c2.event, cfg.rule_id)

(***************************************************************************)
(* C22  Synthetic event id is deterministic.  For an unresolved open whose *)
(* record has no event id, the synthetic event id depends only on the      *)
(* batch token and the open timestamp: two sweeps at different invocation  *)
(* times over the same stored open produce the same event id and the same  *)
(* suppression key; when the record carries an event id, that id is used   *)
(* unchanged.                                                              *)
(***************************************************************************)
C22_SyntheticIdDeterministic ==
  [][(last'.op = "sweep" /\ out.at >= 0 /\ out.state = file /\ file' = file) =>
       \A i \in DOMAIN out.cands, j \in DOMAIN out'.cands :
         out.cands[i].open = out'.cands[j].open =>
           LET r == StoredAt(out.cands[i].open[1], out.cands[i].open[2])
           IN /\ SameIdentity(out.cands[i], out'.cands[j])
              /\ r.event_id # "" => out'.cands[j].event.event_id.s = r.event_id
              /\ r.event_id = "" => /\ out'.cands[j].event.event_id.s = "SWEEP"
                                    /\ out'.cands[j].event.event_id.bt = r.batch_token]_vars

\* the candidate passed routing, was not suppressed and passed validation
Passed(o, k) ==
  /\ \A i \in DOMAIN cfg.consumers : cfg.consumers[i] \in cfg.allowed_consumers
  /\ o.cands[k].open \notin Range(o.suppressed)
  /\ cfg.severity # None

(***************************************************************************)
(* C23  Sweep result is the emitted count.  The count a sweep reports      *)
(* (SWEEP COMPLETE emitted=N) equals the number of alerts appended to the  *)
(* alert sink during that invocation, which is the number of candidates    *)
(* that passed routing, were not suppressed and passed schema validation.  *)
(***************************************************************************)
C23_ResultIsEmittedCount ==
  [][last'.op = "sweep" =>
       /\ out'.emitted = Len(out'.appended)
       /\ Len(alerts') = Len(alerts) + out'.emitted
       /\ SubSeq(alerts', 1, Len(alerts)) = alerts
       /\ out'.emitted = Cardinality({k \in DOMAIN out'.cands : Passed(out', k)})]_vars

\* a sweep has ended with a count that is at least one and less than the
\* number of its candidates
C23_Witness ==
  /\ last.op = "sweep" /\ out.ret = 0 /\ out.read /\ ~out.raised
  /\ out.emitted >= 1
  /\ Len(out.cands) > out.emitted

(***************************************************************************)
(* The suppression gate called directly: check_and_update with any key and *)
(* any window, at any time.                                                *)
(***************************************************************************)
GateKeys == {"k1", "k2"}
GateWindows == {0, 1, 2}

\* a call of check_and_update and what it returned; emitted_at is, for each
\* key, the time of the last call that returned suppressed = false (-1: none)
GateCall(op, key, window, d, emitted_at) ==
  [op |-> op, key |-> key, window_minutes |-> window, at |-> now,
   suppressed |-> d.suppressed, last_emitted_at |-> d.last_emitted_at,
   emitted_at |-> emitted_at]

InitGate ==
  /\ file = _write_atomic(_empty_doc)
  /\ tmp = NoTmp
  /\ now = 0
  /\ store = TRUE
  /\ last = Op("none", "", 0, FALSE, FALSE, <<>>)
  /\ procs = [p \in Procs |-> IdleProc]
  /\ nw = 0
  /\ rt = NoRT
  /\ cfg = Config(TRUE, 1, 1, <<"QA">>, "HIGH")
  /\ supp = EmptyDict
  /\ alerts = <<>>
  /\ out = NoSweep
  /\ call = GateCall("none", "", 0, [suppressed |-> FALSE, last_emitted_at |-> 0],
                     [k \in GateKeys |-> -1])

CheckAndUpdate ==
  \E k \in GateKeys, w \in GateWindows :
    LET d == check_and_update(supp, k, w, now)
    IN /\ supp' = d.state
       /\ call' = GateCall("check_and_update", k, w, d,
                           [call.emitted_at EXCEPT ![k] = IF d.suppressed THEN @ ELSE now])
       /\ UNCHANGED <<file, tmp, now, store, last, fsVars, rt, cfg, alerts, out>>

NextGate == CheckAndUpdate \/ Tick

SpecGate == InitGate /\ [][NextGate]_vars

(***************************************************************************)
(* C24  Suppression window is a minimum interval.  A call of               *)
(* check_and_update with window W that returns suppressed = false is at    *)
(* least W minutes after the last call for the same key that returned      *)
(* suppressed = false; a call made less than W minutes after that call     *)
(* returns suppressed = true with last_emitted_at equal to the time of     *)
(* that earlier emission.                                                  *)
(***************************************************************************)
C24_MinimumInterval ==
  [][call'.op = "check_and_update" /\ call' # call /\ call.emitted_at[call'.key] >= 0 =>
       LET e == call.emitted_at[call'.key]
       IN /\ ~call'.suppressed => call'.at - e >= call'.window_minutes
          /\ call'.at - e < call'.window_minutes =>
               call'.suppressed /\ call'.last_emitted_at = e]_vars

\* a call has been suppressed a minute after an emission for its key, under
\* a window of two minutes
C24_Witness ==
  /\ call.op = "check_and_update"
  /\ call.suppressed
  /\ call.window_minutes = 2
  /\ call.emitted_at[call.key] = call.at - 1
  /\ call.last_emitted_at = call.at - 1

\* the audit record types written for the candidate made from the open at
\* pos, in the order they were written
Trail(o, pos) ==
  LET a == SelectSeq(o.audit, LAMBDA x : x.open = pos)
  IN [i \in 1..Len(a) |-> a[i].record_type]

TrailRejected == <<"INTERNAL_ERROR">>
TrailSuppressed == <<"ROUTING_APPLIED", "ALERT_SUPPRESSED">>
TrailInvalid == <<"ROUTING_APPLIED", "CORRELATION_HIT", "ALERT_BUILT", "INTERNAL_ERROR">>
TrailAppended == <<"ROUTING_APPLIED", "CORRELATION_HIT", "ALERT_BUILT", "ALERT_PERSISTED">>

RoutingAccepts == \A i \in DOMAIN cfg.consumers : cfg.consumers[i] \in cfg.allowed_consumers

(***************************************************************************)
(* C25  Pipeline order per candidate.  For every candidate the sweep runs  *)
(* routing normalisation, the suppression check, alert assembly, schema    *)
(* validation and the append in this order, and a later step only when     *)
(* every earlier one succeeded: a candidate that routing rejects reaches   *)
(* no later step, a suppressed candidate is not assembled, an alert that   *)
(* fails validation is not appended, and an alert is appended only after   *)
(* routing accepted the consumers, the gate returned not-suppressed (and   *)
(* recorded the emission) and validation reported no error.                *)
(***************************************************************************)
C25_PipelineOrder ==
  last.op = "sweep" =>
    \A k \in DOMAIN out.cands :
      LET pos == out.cands[k].open
          tr == Trail(out, pos)
          key == _suppression_key(out.cands[k].event, cfg.rule_id)
      IN /\ tr \in {TrailRejected, TrailSuppressed, TrailInvalid, TrailAppended}
         /\ ~RoutingAccepts <=> tr = TrailRejected
         /\ pos \in Range(out.suppressed) <=> tr = TrailSuppressed
         /\ pos \in Range(out.appended) <=> tr = TrailAppended
         /\ tr \in {TrailInvalid, TrailAppended} =>
              key \in DOMAIN supp /\ supp[key] = out.at
         /\ tr = TrailInvalid <=>
              (RoutingAccepts /\ pos \notin Range(out.suppressed) /\ cfg.severity = None)
         /\ pos \in Range(out.appended) =>
              (RoutingAccepts /\ pos \notin Range(out.suppressed) /\ cfg.severity # None)

\* a sweep has assembled an alert that failed validation and was not appended
C25_Witness ==
  /\ last.op = "sweep"
  /\ \E k \in DOMAIN out.cands :
       /\ Trail(out, out.cands[k].open) = TrailInvalid
       /\ out.cands[k].open \notin Range(out.appended)

\* the record at pos is an open with a batch token and a UTC timestamp
TimedOpen(pos) ==
  LET r == StoredAt(pos[1], pos[2])
  IN /\ r.event_type = "STEP_OPENED"
     /\ r.batch_token \notin {None, "", " "}
     /\ r.event_timestamp.z \in Aware

\* the deadline of the open at pos
Deadline(pos) == StoredAt(pos[1], pos[2]).event_timestamp.t + cfg.threshold_minutes

\* the group of the open at pos holds a completion for its batch token whose
\* timestamp t satisfies opened_at <= t <= opened_at + threshold
CompletedInWindow(pos) ==
  LET r == StoredAt(pos[1], pos[2])
  IN \E q \in StoredPositions :
       /\ q[1] = pos[1]
       /\ IsCompletion(q, r.batch_token)
       /\ StoredAt(q[1], q[2]).event_timestamp.z \in Aware
       /\ r.event_timestamp.t <= StoredAt(q[1], q[2]).event_timestamp.t
       /\ StoredAt(q[1], q[2]).event_timestamp.t <= Deadline(pos)

(***************************************************************************)
(* C26  Overdue test.  A sweep invoked at time now skips an open at        *)
(* opened_at exactly when opened_at + threshold_minutes > now: an open     *)
(* whose deadline equals now or lies in the past is treated as overdue     *)
(* and, if unresolved, becomes a candidate; an open before its deadline    *)
(* gets neither candidate nor alert.                                       *)
(***************************************************************************)
C26_OverdueTest ==
  (last.op = "sweep" /\ out.ret = 0 /\ out.read) =>
    \A pos \in StoredPositions :
      TimedOpen(pos) =>
        /\ Deadline(pos) > now =>
             ~HasCandidate(out, pos) /\ pos \notin Range(out.appended)
        /\ pos \in Range(out.early) => Deadline(pos) > now
        /\ (Deadline(pos) <= now /\ ~CompletedInWindow(pos)) => HasCandidate(out, pos)

(***************************************************************************)
(* C27  Resolution window is closed on both ends.  An overdue open at      *)
(* opened_at with token B is resolved if and only if its group holds a     *)
(* completion for B at a time t with opened_at <= t <= opened_at +         *)
(* threshold_minutes; with completions only before the open or after the   *)
(* deadline the open is not resolved and is made a candidate.              *)
(***************************************************************************)
C27_ClosedWindow ==
  (last.op = "sweep" /\ out.ret = 0 /\ out.read) =>
    \A pos \in StoredPositions :
      (TimedOpen(pos) /\ Deadline(pos) <= now) =>
        /\ pos \in Range(out.resolved) <=> CompletedInWindow(pos)
        /\ ~CompletedInWindow(pos) => HasCandidate(out, pos)

NoToken == {None, "", " "}

\* the record at q is a completion stored in the group gk
CompletionIn(q, gk) ==
  q[1] = gk /\ StoredAt(q[1], q[2]).event_type = cfg.pair_with_event_type

(***************************************************************************)
(* C28  Matching is per group.  An open with batch token B that a sweep    *)
(* skips as resolved has a completion with token B in its own group: a     *)
(* completion with token B stored under another group key does not resolve *)
(* it, and neither does a completion with another token in its group.      *)
(***************************************************************************)
C28_MatchingPerGroup ==
  last.op = "sweep" =>
    \A p \in Range(out.resolved) :
      \E q \in StoredPositions :
        /\ CompletionIn(q, p[1])
        /\ StoredAt(q[1], q[2]).batch_token = StoredAt(p[1], p[2]).batch_token

\* a sweep has made a candidate of an open although another group holds a
\* completion for its token and its own group a completion for another
\* token, both at the time of the open
C28_Witness ==
  /\ last.op = "sweep"
  /\ \E k \in DOMAIN out.cands :
       LET p == out.cands[k].open
           r == StoredAt(p[1], p[2])
       IN /\ \E q \in StoredPositions :
               /\ q[1] # p[1]
               /\ StoredAt(q[1], q[2]).event_type = cfg.pair_with_event_type
               /\ StoredAt(q[1], q[2]).batch_token = r.batch_token
               /\ StoredAt(q[1], q[2]).event_timestamp = r.event_timestamp
          /\ \E q \in StoredPositions :
               /\ CompletionIn(q, p[1])
               /\ StoredAt(q[1], q[2]).batch_token \notin NoToken \cup {r.batch_token}
               /\ StoredAt(q[1], q[2]).event_timestamp = r.event_timestamp

(***************************************************************************)
(* C29  Records without a parsable timestamp are skipped by the sweep and  *)
(* never treated as 'now'.  A record whose event_timestamp is absent,      *)
(* empty or unparsable is never made a candidate and never resolves an     *)
(* open: every open skipped as resolved has a completion whose stored      *)
(* timestamp lies in its resolution window.                                *)
(***************************************************************************)
C29_TimelessSkipped ==
  last.op = "sweep" =>
    /\ \A k \in DOMAIN out.cands :
         StoredAt(out.cands[k].open[1], out.cands[k].open[2]).event_timestamp.z
           \notin {"empty", "bad"}
    /\ \A p \in Range(out.resolved) : TimedOpen(p) /\ CompletedInWindow(p)

(***************************************************************************)
(* C30  Records without a batch token never participate in timeout         *)
(* matching.  An open whose batch_token is absent, null or blank gets no   *)
(* candidate and no alert, however overdue; an open that a sweep skips as  *)
(* resolved has a batch token, and its group holds a completion that       *)
(* carries a batch token.                                                  *)
(***************************************************************************)
C30_TokenlessNeverParticipate ==
  last.op = "sweep" =>
    /\ \A pos \in StoredPositions :
         StoredAt(pos[1], pos[2]).batch_token \in NoToken =>
           /\ ~HasCandidate(out, pos)
           /\ pos \notin Range(out.appended)
           /\ pos \notin Range(out.resolved)
    /\ \A k \in DOMAIN alerts : alerts[k].batch_token \notin NoToken
    /\ \A p \in Range(out.resolved) :
         \E q \in StoredPositions :
           CompletionIn(q, p[1]) /\ StoredAt(q[1], q[2]).batch_token \notin NoToken

\* a sweep has ended over a group that holds an overdue open without batch
\* token and a completion without batch token
C30_Witness ==
  /\ last.op = "sweep" /\ out.ret = 0 /\ out.read /\ ~out.raised
  /\ \E pos \in StoredPositions :
       /\ StoredAt(pos[1], pos[2]).event_type = "STEP_OPENED"
       /\ StoredAt(pos[1], pos[2]).batch_token \in NoToken
       /\ StoredAt(pos[1], pos[2]).event_timestamp.z \in Aware
       /\ Deadline(pos) <= now
       /\ \E q \in StoredPositions :
            CompletionIn(q, pos[1]) /\ StoredAt(q[1], q[2]).batch_token \in NoToken

\* the group a group key names once its surrounding whitespace is removed
KeyGroup(k) == IF k = " g1 " THEN "g1" ELSE k

\* the groups of the document a file holds
DocGroups(f) == groups_of(Dict(f.data))

(***************************************************************************)
(* C31  add_event is append-only.  With a non-blank group key on a state   *)
(* that reads as a document, add_event adds exactly one record at the end  *)
(* of that group's sequence (creating the group if absent), leaves the     *)
(* records stored before in that group unchanged and in the same order,    *)
(* and leaves every other group unchanged; an absent or empty timestamp is *)
(* replaced by the current UTC time and an absent or empty batch token is  *)
(* stored as null.                                                         *)
(***************************************************************************)
C31_AddEventAppendOnly ==
  [][(last'.op = "add_event" /\ last'.key \notin BlankKeys /\ read_ok(file)) =>
       LET g == DocGroups(file)
           g2 == DocGroups(file')
           gk == KeyGroup(last'.key)
           old == IF gk \in DOMAIN g THEN List(g[gk]) ELSE <<>>
           new == List(g2[gk])
           r == new[Len(new)][1].r
       IN /\ ~last'.raised
          /\ read_ok(file')
          /\ DOMAIN g2 = DOMAIN g \cup {gk}
          /\ Len(new) = Len(old) + 1
          /\ SubSeq(new, 1, Len(old)) = old
          /\ \A k \in DOMAIN g \ {gk} : g2[k] = g[k]
          /\ r.event_id = "e1" /\ r.event_type = "STEP_OPENED"
          /\ r.event_timestamp = IF last'.event_timestamp.z = "empty"
                                 THEN [t |-> now, z |-> "+00:00"]
                                 ELSE last'.event_timestamp
          /\ r.batch_token = IF last'.batch_token \in {None, ""}
                             THEN None ELSE last'.batch_token]_vars

\* add_event without batch token has appended a second record to a group
C31_Witness ==
  /\ last.op = "add_event"
  /\ last.batch_token \in {None, ""}
  /\ read_ok(file)
  /\ \E gk \in DOMAIN DocGroups(file) :
       /\ Len(List(DocGroups(file)[gk])) = 2
       /\ List(DocGroups(file)[gk])[2] = last.ret
       /\ last.ret[1].r.batch_token = None

(***************************************************************************)
(* Prune over a correlation state that holds any records: the documents of *)
(* InitMatch, pruned with any maximum age at any time.                     *)
(***************************************************************************)
NextPrune == Prune \/ Tick

SpecPrune == InitMatch /\ [][NextPrune]_vars

\* the element e of a group is a record whose timestamp is in UTC and not
\* before the cutoff
InPruneWindow(e, cutoff) ==
  /\ isrecord(e)
  /\ e[1].r.event_timestamp.z \in Aware
  /\ e[1].r.event_timestamp.t >= cutoff

(***************************************************************************)
(* C32  Prune result shape.  After prune no group with an empty sequence   *)
(* remains in the document, every record whose timestamp is absent or      *)
(* unparsable has been dropped, and the records kept in each group are     *)
(* exactly the in-window records of that group in their original order; a  *)
(* prune that follows a prune at the same instant with the same maximum    *)
(* age changes nothing.                                                    *)
(***************************************************************************)
C32_PruneShape ==
  [][last'.op = "prune" =>
       LET g == IF read_ok(file) THEN DocGroups(file) ELSE EmptyDict
           g2 == DocGroups(file')
           cutoff == now - last'.M
           inwin(k) == SelectSeq(List(g[k]), LAMBDA e : InPruneWindow(e, cutoff))
       IN /\ read_ok(file')
          /\ DOMAIN g2 = {k \in DOMAIN g : inwin(k) # <<>>}
          /\ \A k \in DOMAIN g2 :
               /\ List(g2[k]) # <<>>
               /\ List(g2[k]) = inwin(k)
               /\ \A i \in DOMAIN List(g2[k]) :
                    List(g2[k])[i][1].r.event_timestamp.z \notin {"empty", "bad"}
          /\ (last.op = "prune" /\ last.M = last'.M) => file' = file]_vars

\* a prune has dropped the group g2 and a record of g1 and has kept a record
\* of g1; the prune before it, at the same time with the same age, left the
\* same document
C32_Witness ==
  /\ last.op = "prune"
  /\ read_ok(file)
  /\ DOMAIN DocGroups(file) = {"g1"}
  /\ Len(List(DocGroups(file)["g1"])) = 1
  /\ List(DocGroups(file)["g1"])[1][1].r.event_timestamp.t = now - last.M

\* the overdue unresolved opens of the stored state at the time now
OverdueOpens ==
  {pos \in StoredPositions : TimedOpen(pos) /\ Deadline(pos) <= now /\ ~CompletedInWindow(pos)}

(***************************************************************************)
(* C33  One candidate per timeout per sweep.  In one sweep invocation      *)
(* every stored overdue unresolved open is handed to the pipeline exactly  *)
(* once: no position is a candidate twice, every candidate is an overdue   *)
(* unresolved open, every overdue unresolved open is a candidate, and the  *)
(* number of alerts appended is at most the number of overdue unresolved   *)
(* opens in the state.                                                     *)
(***************************************************************************)
C33_OneCandidatePerTimeout ==
  (last.op = "sweep" /\ out.ret = 0 /\ out.read) =>
    /\ \A i, j \in DOMAIN out.cands : out.cands[i].open = out.cands[j].open => i = j
    /\ \A k \in DOMAIN out.cands : out.cands[k].open \in OverdueOpens
    /\ \A pos \in OverdueOpens : HasCandidate(out, pos)
    /\ Len(out.appended) <= Cardinality(OverdueOpens)

\* the alert a in the sink was appended for the suppression key of the
\* synthetic event ev: the rule and the batch token are those of ev (the
\* other dimensions of a sweep key are the same for every synthetic event)
AlertForKeyOf(a, ev) ==
  /\ a.rule_id = cfg.rule_id
  /\ _safe_str(a.batch_token) = _safe_str(ev.batch_token)

(***************************************************************************)
(* C34  A suppressed sweep candidate implies an earlier persisted alert.   *)
(* Whenever a sweep skips a candidate as suppressed, the alert sink holds  *)
(* an alert for the same suppression key that was appended less than the   *)
(* suppression window before the sweep; a candidate whose alert failed     *)
(* schema validation leaves no entry that suppresses a later candidate.    *)
(***************************************************************************)
C34_SuppressedImpliesPersisted ==
  last.op = "sweep" =>
    \A k \in DOMAIN out.cands :
      out.cands[k].open \in Range(out.suppressed) =>
        \E i \in DOMAIN alerts :
          /\ AlertForKeyOf(alerts[i], out.cands[k].event)
          /\ alerts[i].created_at <= now
          /\ now - alerts[i].created_at < cfg.window_minutes

(***************************************************************************)
(* C35  Distinct timeouts get distinct alerts within one sweep.  In a      *)
(* sweep that starts from an empty suppression state, ends without         *)
(* exception, and whose routing and validation succeed, two overdue        *)
(* unresolved opens that differ in group key or in open timestamp each get *)
(* their own appended alert, also when they share a batch token; the       *)
(* suppression keys of candidates stored under different group keys        *)
(* differ.                                                                 *)
(***************************************************************************)
C35_DistinctTimeoutsDistinctAlerts ==
  (/\ last.op = "sweep" /\ out.ret = 0 /\ out.read /\ ~out.raised
   /\ out.prev_at < 0
   /\ RoutingAccepts
   /\ cfg.severity # None) =>
    /\ \A p, q \in OverdueOpens :
         (\/ p[1] # q[1]
          \/ StoredAt(p[1], p[2]).event_timestamp.t # StoredAt(q[1], q[2]).event_timestamp.t) =>
           p \in Range(out.appended) /\ q \in Range(out.appended)
    /\ \A i, j \in DOMAIN out.cands :
         out.cands[i].open[1] # out.cands[j].open[1] =>
           _suppression_key(out.cands[i].event, cfg.rule_id)
             # _suppression_key(out.cands[j].event, cfg.rule_id)

(***************************************************************************)
(* Sweeps under a routing policy that is corrected between invocations:    *)
(* the consumers the configuration names are put on the allow-list.        *)
(***************************************************************************)
CorrectAllowList ==
  /\ normalize_raises(cfg.consumers, cfg.allowed_consumers)
  /\ cfg' = [cfg EXCEPT !.allowed_consumers = @ \cup Range(cfg.consumers)]
  /\ last' = Op("allow", "", 0, FALSE, FALSE, <<>>)
  /\ UNCHANGED <<file, tmp, now, store, fsVars, rt, supp, alerts, out, call>>

NextRoute == StoreEvent \/ Sweep \/ Tick \/ CorrectAllowList

SpecRoute == InitSweep /\ [][NextRoute]_vars

C37_WindowDoesNotSlide ==
  [][(now' = now /\ call'.op = "check_and_update") =>
       /\ call'.suppressed => supp' = supp
       /\ ~call'.suppressed =>
            /\ DOMAIN supp' = DOMAIN supp \cup {call'.key}
            /\ supp'[call'.key] = call'.at
            /\ \A k \in DOMAIN supp \ {call'.key} : supp'[k] = supp[k]]_vars

\* a call has been suppressed a minute after the emission for its key and
\* the entry of the key is still the time of that emission; the state holds
\* an entry for another key
C37_Witness ==
  /\ call.op = "check_and_update"
  /\ call.suppressed
  /\ call.key \in DOMAIN supp
  /\ supp[call.key] = call.at - 1
  /\ \E k \in DOMAIN supp : k # call.key

(***************************************************************************)
(* C38  Append then lookup agree on the key.  For every group key that is  *)
(* not blank, also one with leading or trailing whitespace, a call of      *)
(* get_group_events with the key that directly follows a call of add_event *)
(* with the same key returns a sequence whose last element is the record   *)
(* that add_event appended.                                                *)
(***************************************************************************)
C38_AppendThenLookup ==
  [][(/\ last.op = "add_event" /\ ~last.raised /\ last.key \notin BlankKeys
      /\ last'.op = "get_group_events" /\ last'.key = last.key) =>
       /\ ~last'.raised
       /\ islist(last'.ret)
       /\ List(last'.ret) # <<>>
       /\ List(last'.ret)[Len(List(last'.ret))] = last.ret]_vars

====
